---- MODULE Spec2Model ----
(***************************************************************************)
(* A model of the boot variable store of rk-misc-tools (bootinfo.c and     *)
(* the rk-bootinfo driver).                                                *)
(*                                                                         *)
(* The storage device holds two slots.  A slot is a header sector (the     *)
(* packed struct device_info followed by the first bytes of the variable   *)
(* area) and an extension area (the rest of the variable area followed by  *)
(* a CRC-32 of the extension area).  Bytes are numbers 0..255; names and   *)
(* values are sequences of bytes without the terminating NUL.              *)
(*                                                                         *)
(* Scaling: the header sector keeps HdrVarBytes bytes of variable area     *)
(* (512 - 16 in the build) and the extension area keeps ExtVarBytes        *)
(* (512 * EXTENSION_SECTOR_COUNT - 4 in the build).  All arithmetic of the *)
(* code on VARSPACE_SIZE is kept as the code writes it.                    *)
(*                                                                         *)
(* CRC-32 is zlib's; it is kept symbolic, as a collision-free fingerprint  *)
(* of the bytes it covers (crc32 below).                                   *)
(***************************************************************************)
EXTENDS Integers, Sequences, FiniteSets, TLC

VARIABLES
    dev,      \* the storage device: slot index 0..1 -> slot contents
    ctx,      \* the session context (struct devinfo_context), or NoCtx
    last,     \* the last API call: operation, return code, out-parameter
    upd,      \* history: what the most recent bootinfo_update did
    implied,  \* history: the name -> value map implied by the accepted sets
    marks,    \* history: consecutive mark_in_progress calls since clean
    faults,   \* history: writes that failed or were cut short by a crash
    writeable,\* the soft read-only switch of the device: TRUE when force_ro is 0
    lock,     \* the flock held on the lockfile, per process: none, sh or ex
    events,   \* history: what the last call did to lock, switch and device
    entry,    \* history: how the session was opened and what it found
    setarg,   \* history: the arguments and the list of the last bootvar_set
    history   \* whether events, entry and setarg are kept in this behaviour

vars == <<dev, ctx, last, upd, implied, marks, faults,
          writeable, lock, events, entry, setarg, history>>

(***************************************************************************)
(* Bounds of the model.                                                    *)
(***************************************************************************)
\* variable-area bytes kept in the header sector
HdrVarBytes == 3
\* variable-area bytes kept in the extension area
ExtVarBytes == 8
\* Spec: sessions are opened for writing while the current serial is below
MaxSerial == 2
\* SpecMark: mark_in_progress is called while fewer calls were made
MaxMarkCalls == 2
\* SpecBoot: write sessions are opened while the current serial is below
MaxBootSerial == 2
\* SpecBoot: mark_in_progress is called while fewer calls were made
MaxBootMarks == 258
\* the other processes that take the lock
NPeers == 1
\* SpecEnv: mark_in_progress is called while failed_boots is below
MaxEnvFailed == 1

\* bytes of a block in the transfer loops of SpecIO, and the read or write
\* calls one loop is followed for
IoSize == 3
MaxIoCalls == 5

(***************************************************************************)
(* Program constants.                                                      *)
(***************************************************************************)
DEVICE_MAGIC == <<66, 79, 79, 84, 73, 78, 70, 79>>
DEVINFO_VERSION_CURRENT == 4
EXTENSION_SECTOR_COUNT == 1023
VARSPACE_SIZE == HdrVarBytes + ExtVarBytes
MAX_VALUE_SIZE == VARSPACE_SIZE - 4
FLAG_BOOT_IN_PROGRESS == 1
DEVINFO_BLOCK_SIZE == 512
\* uint8_t fields (flags, failed_boots, sernum) are kept modulo
UINT8_RANGE == 256

Zeros(n) == [k \in 1..n |-> 0]

\* zlib's crc32(0, buf, len), symbolic: equal bytes <=> equal CRC.
\* The CRC of an empty region is 0, which is also a zero-filled CRC field.
crc32(bytes) == [crc32_of |-> bytes]
ZeroCrc == crc32(<<>>)

(***************************************************************************)
(* Slot layout.                                                            *)
(***************************************************************************)
\* struct device_info plus the rest of the header sector
ZeroHdr ==
    [magic |-> Zeros(8), devinfo_version |-> 0, flags |-> 0, failed_boots |-> 0,
     crcsum |-> ZeroCrc, sernum |-> 0, unused__ |-> 0, ext_sectors |-> 0,
     vars |-> Zeros(HdrVarBytes)]

ZeroExt == [vars |-> Zeros(ExtVarBytes), crc |-> ZeroCrc]

\* a zero-filled slot: calloc'd infobuf[i], or a slot after the zero-fill
ZeroSlot == [hdr |-> ZeroHdr, ext |-> ZeroExt]

\* the bytes of the header sector, in order, as crc32 reads them
HdrBytes(h) ==
    h.magic \o <<h.devinfo_version, h.flags, h.failed_boots>>
            \o <<h.sernum, h.unused__, h.ext_sectors>> \o h.vars

\* the variable area of a slot buffer: infobuf[i] + DEVINFO_HDR_SIZE ...
VarArea(slot) == slot.hdr.vars \o slot.ext.vars

\* a slot buffer with its variable area replaced
WithVarArea(slot, area) ==
    [hdr |-> [slot.hdr EXCEPT !.vars = SubSeq(area, 1, HdrVarBytes)],
     ext |-> [slot.ext EXCEPT !.vars = SubSeq(area, HdrVarBytes + 1, VARSPACE_SIZE)]]

(***************************************************************************)
(* Variable codec.                                                         *)
(***************************************************************************)
\* the inner scan loops of parse_vars: advance varbytes to the next NUL
RECURSIVE ScanNul(_, _, _, _)
ScanNul(area, cp, varbytes, remain) ==
    IF varbytes < remain /\ area[cp + varbytes] # 0
    THEN ScanNul(area, cp, varbytes + 1, remain)
    ELSE varbytes

RECURSIVE ParseFrom(_, _, _, _)
ParseFrom(area, cp, acc, varsize) ==
    LET remain == Len(area) - (cp - 1) IN
    IF remain <= 0 \/ area[cp] = 0
    THEN [vars |-> acc, varsize |-> varsize]
    ELSE LET nb == ScanNul(area, cp, 1, remain) IN
         IF nb >= remain
         THEN [vars |-> acc, varsize |-> varsize]
         ELSE LET vb == ScanNul(area, cp, nb + 1, remain) IN
              IF vb >= remain
              THEN [vars |-> acc, varsize |-> varsize]
              ELSE ParseFrom(area, cp + vb + 1,
                             Append(acc, [name  |-> SubSeq(area, cp, cp + nb - 1),
                                          value |-> SubSeq(area, cp + nb + 1, cp + vb - 1)]),
                             varsize + vb + 1)

\* parse_vars over the variable area of the current slot buffer
parse_vars(area) == ParseFrom(area, 1, <<>>, 0)

\* Overwrite that copies nothing
Overwrite_Nothing(area, cp, bytes) == area

\* memcpy into the variable area at (1-based) position cp
Overwrite(area, cp, bytes) ==
    [k \in 1..Len(area) |->
        IF k >= cp /\ k < cp + Len(bytes) THEN bytes[k - cp + 1] ELSE area[k]]

RECURSIVE PackFrom(_, _, _, _, _)
PackFrom(vlist, i, area, cp, remain) ==
    IF i <= Len(vlist) /\ remain > 0
    THEN LET nlen == Len(vlist[i].name) + 1
             vlen == Len(vlist[i].value) + 1 IN
         IF nlen + vlen > remain
         THEN [ok |-> FALSE, area |-> area]
         ELSE PackFrom(vlist, i + 1,
                       Overwrite(area, cp, vlist[i].name \o <<0>> \o vlist[i].value \o <<0>>),
                       cp + nlen + vlen, remain - (nlen + vlen))
    ELSE IF i <= Len(vlist) \/ remain = 0
         THEN [ok |-> FALSE, area |-> area]
         ELSE [ok |-> TRUE, area |-> Overwrite(area, cp, <<0>>)]

\* pack_vars that takes every list
pack_vars_NoLimit(vlist, area) == [ok |-> TRUE, area |-> area]

\* pack_vars: an empty list writes nothing, not even the terminator
pack_vars(vlist, area) ==
    IF vlist = <<>>
    THEN [ok |-> TRUE, area |-> area]
    ELSE PackFrom(vlist, 1, area, 1, VARSPACE_SIZE - 1)

(***************************************************************************)
(* Slot load and selection (find_bootinfo).                                *)
(***************************************************************************)
\* SlotValid without the comparison of the extension CRC
SlotValid_NoCrc(slot) ==
    /\ slot.hdr.magic = DEVICE_MAGIC
    /\ slot.hdr.devinfo_version >= DEVINFO_VERSION_CURRENT
    /\ slot.hdr.ext_sectors = EXTENSION_SECTOR_COUNT

\* the validity test of one slot as read from the device
SlotValid(slot) ==
    /\ slot.hdr.magic = DEVICE_MAGIC
    /\ slot.hdr.devinfo_version >= DEVINFO_VERSION_CURRENT
    /\ slot.hdr.ext_sectors = EXTENSION_SECTOR_COUNT
    /\ crc32(slot.ext.vars) = slot.ext.crc

\* what the load leaves in infobuf[i]: the header sector always, the
\* extension area only once magic, version and ext_sectors were accepted
LoadBuf(slot) ==
    IF /\ slot.hdr.magic = DEVICE_MAGIC
       /\ slot.hdr.devinfo_version >= DEVINFO_VERSION_CURRENT
       /\ slot.hdr.ext_sectors = EXTENSION_SECTOR_COUNT
    THEN slot
    ELSE [hdr |-> slot.hdr, ext |-> ZeroExt]

\* SelectCurrent without the two wrap-around cases
SelectCurrent_NoWrap(v0, v1, s0, s1) ==
    IF ~(v0 \/ v1) THEN -1
    ELSE IF v0 /\ ~v1 THEN 0
    ELSE IF ~v0 /\ v1 THEN 1
    ELSE IF s1 > s0 THEN 1
    ELSE 0

\* the choice of ctx->current from valid[] and the two serial numbers
SelectCurrent(v0, v1, s0, s1) ==
    IF ~(v0 \/ v1) THEN -1
    ELSE IF v0 /\ ~v1 THEN 0
    ELSE IF ~v0 /\ v1 THEN 1
    ELSE IF s0 = 255 /\ s1 = 0 THEN 1
    ELSE IF s1 = 255 /\ s0 = 0 THEN 0
    ELSE IF s1 > s0 THEN 1
    ELSE 0

\* the first sizeof(struct device_info) bytes of a header sector
InfoOf(h) ==
    [magic |-> h.magic, devinfo_version |-> h.devinfo_version, flags |-> h.flags,
     failed_boots |-> h.failed_boots, crcsum |-> h.crcsum, sernum |-> h.sernum,
     unused__ |-> h.unused__, ext_sectors |-> h.ext_sectors]

ZeroInfo == InfoOf(ZeroHdr)

\* a calloc'd struct devinfo_context; open tells whether a session holds it,
\* devinfo_dev whether the device path is filled in, lockfd whether the
\* context holds a descriptor of the lockfile
ZeroCtx ==
    [open |-> FALSE, readonly |-> FALSE, valid |-> [i \in 0..1 |-> FALSE],
     current |-> 0, curinfo |-> ZeroInfo, vars |-> <<>>, varsize |-> 0,
     infobuf |-> [i \in 0..1 |-> ZeroSlot],
     devinfo_dev |-> FALSE, lockfd |-> FALSE]

NoCtx == ZeroCtx

\* find_bootinfo on the device: the return code and the context it builds
find_bootinfo(readonly, device) ==
    LET valid   == [i \in 0..1 |-> SlotValid(device[i])]
        infobuf == [i \in 0..1 |-> LoadBuf(device[i])]
        current == SelectCurrent(valid[0], valid[1],
                                 infobuf[0].hdr.sernum, infobuf[1].hdr.sernum)
        base    == [ZeroCtx EXCEPT !.open = TRUE, !.readonly = readonly,
                                   !.valid = valid, !.infobuf = infobuf,
                                   !.current = current,
                                   !.devinfo_dev = TRUE, !.lockfd = TRUE]
    IN  IF current = -1
        THEN [rc |-> -1, ctx |-> base]
        ELSE LET parsed == parse_vars(VarArea(infobuf[current])) IN
             [rc  |-> 0,
              ctx |-> [base EXCEPT !.curinfo = InfoOf(infobuf[current].hdr),
                                   !.vars = parsed.vars,
                                   !.varsize = parsed.varsize]]

(***************************************************************************)
(* Persist (bootinfo_update).                                              *)
(***************************************************************************)
\* DestIdx that picks the current slot
DestIdx_SameSlot(c) == IF c.current < 0 \/ c.current > 1 THEN 0 ELSE c.current

\* the destination slot of an update
DestIdx(c) == IF c.current < 0 \/ c.current > 1 THEN 0 ELSE 1 - c.current

\* NextSernum in a wider integer
NextSernum_NoWrap(s) == s + 1

\* info->sernum = ctx->curinfo.sernum + 1, in a uint8_t
NextSernum(s) == (s + 1) % UINT8_RANGE

\* Write progress of one update, in units: 0 = nothing reached the device,
\* 1 = the header sector, 1 + j = the header sector and the first j bytes
\* of the extension area (the CRC is the last of them).
FullWrite == 1 + ExtVarBytes + 1

\* WriteUnits with the extension area written before the header sector
WriteUnits_ExtFirst(old, buf, n) ==
    [hdr |-> IF n = FullWrite THEN buf.hdr ELSE old.hdr,
     ext |-> [vars |-> [k \in 1..ExtVarBytes |->
                           IF k <= n THEN buf.ext.vars[k] ELSE old.ext.vars[k]],
              crc  |-> IF n >= ExtVarBytes + 1 THEN buf.ext.crc ELSE old.ext.crc]]

WriteUnits(old, buf, n) ==
    [hdr |-> IF n >= 1 THEN buf.hdr ELSE old.hdr,
     ext |-> [vars |-> [k \in 1..ExtVarBytes |->
                           IF k <= n - 1 THEN buf.ext.vars[k] ELSE old.ext.vars[k]],
              crc  |-> IF n = FullWrite THEN buf.ext.crc ELSE old.ext.crc]]

\* the slot buffer bootinfo_update builds in infobuf[idx]
BuildSlot(c, idx) ==
    LET hdr1 == [ZeroHdr EXCEPT !.magic = DEVICE_MAGIC,
                                !.devinfo_version = DEVINFO_VERSION_CURRENT,
                                !.flags = c.curinfo.flags,
                                !.failed_boots = c.curinfo.failed_boots,
                                !.sernum = NextSernum(c.curinfo.sernum),
                                !.ext_sectors = EXTENSION_SECTOR_COUNT]
        buf1 == [hdr |-> hdr1, ext |-> c.infobuf[idx].ext]
        pk   == pack_vars(c.vars, VarArea(buf1))
        buf2 == WithVarArea(buf1, pk.area)
    IN  IF ~pk.ok
        THEN [ok |-> FALSE, buf |-> buf2]
        ELSE [ok  |-> TRUE,
              buf |-> [hdr |-> [buf2.hdr EXCEPT !.crcsum = crc32(HdrBytes(buf2.hdr))],
                       ext |-> [buf2.ext EXCEPT !.crc = crc32(buf2.ext.vars)]]]

\* bootinfo_update with n units reaching the device before the call ends
bootinfo_update(c, device, n) ==
    IF c.readonly
    THEN [rc |-> -1, err |-> "EROFS", ctx |-> c, dev |-> device, wrote |-> FALSE]
    ELSE LET idx == DestIdx(c)
             b   == BuildSlot(c, idx)
             c2  == [c EXCEPT !.infobuf[idx] = b.buf]
         IN  IF ~b.ok
             THEN [rc |-> -1, err |-> "", ctx |-> c2, dev |-> device,
                   wrote |-> FALSE]
             ELSE [rc    |-> IF n = FullWrite THEN 0 ELSE -1,
                   err   |-> IF n = FullWrite THEN "" ELSE "EIO",
                   ctx   |-> c2,
                   dev   |-> [device EXCEPT ![idx] = WriteUnits(device[idx], b.buf, n)],
                   wrote |-> TRUE]

(***************************************************************************)
(* Variable table (bootinfo_bootvar_get, bootinfo_bootvar_set).            *)
(***************************************************************************)
IsAlpha(c) == (c >= 65 /\ c <= 90) \/ (c >= 97 /\ c <= 122)
\* IsAlnum without the digits
IsAlnum_NoDigit(c) == IsAlpha(c)

IsAlnum(c) == IsAlpha(c) \/ (c >= 48 /\ c <= 57)
IsPrint(c) == c >= 32 /\ c <= 126

\* FindVar that looks at the first entry only
FindVar_FirstOnly(vlist, name, i) ==
    IF Len(vlist) >= 1 /\ vlist[1].name = name THEN 1 ELSE 0

\* FindVar that finds nothing
FindVar_None(vlist, name, i) == 0

\* position of the first entry called name, or 0
RECURSIVE FindVar(_, _, _)
FindVar(vlist, name, i) ==
    IF i > Len(vlist) THEN 0
    ELSE IF vlist[i].name = name THEN i
    ELSE FindVar(vlist, name, i + 1)

\* bootinfo_bootvar_get: the value of the first entry called name, <<>> if none
bootvar_get(vlist, name) ==
    LET i == FindVar(vlist, name, 1) IN
    IF i = 0 THEN <<>> ELSE vlist[i].value

\* RemoveAt that unlinks the head of the list
RemoveAt_Head(vlist, i) == Tail(vlist)

\* unlink entry i
RemoveAt(vlist, i) == SubSeq(vlist, 1, i - 1) \o SubSeq(vlist, i + 1, Len(vlist))

\* bootinfo_bootvar_set; a value of <<>> is NULL or the empty string
bootvar_set(c, name, value) ==
    LET Fail(e) == [rc |-> -1, err |-> e, ctx |-> c] IN
    IF c.readonly THEN Fail("EROFS")
    ELSE IF name = <<>> \/ ~(name[1] = 95 \/ IsAlpha(name[1])) THEN Fail("EINVAL")
    ELSE IF \E k \in 2..Len(name) : ~(name[k] = 95 \/ IsAlnum(name[k])) THEN Fail("EINVAL")
    ELSE IF \E k \in 1..Len(value) : ~IsPrint(value[k]) THEN Fail("EINVAL")
    ELSE IF Len(name) >= DEVINFO_BLOCK_SIZE THEN Fail("ENAMETOOLONG")
    ELSE IF /\ value # <<>>
            /\ \/ Len(value) >= MAX_VALUE_SIZE
               \/ c.varsize + Len(name) + Len(value) + 2 > MAX_VALUE_SIZE
         THEN Fail("EMSGSIZE")
    ELSE LET i == FindVar(c.vars, name, 1) IN
         IF i = 0
         THEN IF value = <<>>
              THEN Fail("ENOENT")
              ELSE [rc |-> 0, err |-> "",
                    ctx |-> [c EXCEPT !.vars = Append(c.vars, [name |-> name, value |-> value])]]
         ELSE IF value = <<>>
              THEN [rc |-> 0, err |-> "", ctx |-> [c EXCEPT !.vars = RemoveAt(c.vars, i)]]
              ELSE [rc |-> 0, err |-> "", ctx |-> [c EXCEPT !.vars[i].value = value]]

(***************************************************************************)
(* Boot-state mutators, in memory.                                         *)
(***************************************************************************)
InProgress(flags) == (flags % 2) = FLAG_BOOT_IN_PROGRESS

\* ctx->curinfo.failed_boots += 1, in a uint8_t
IncFailedBoots(n) == (n + 1) % UINT8_RANGE

\* the header change of bootinfo_mark_in_progress
MarkInProgressInfo(info) ==
    IF InProgress(info.flags)
    THEN [info EXCEPT !.failed_boots = IncFailedBoots(info.failed_boots)]
    ELSE [info EXCEPT !.flags = info.flags + FLAG_BOOT_IN_PROGRESS]

\* MarkSuccessfulInfo that leaves the counter
MarkSuccessfulInfo_KeepCount(info) ==
    [info EXCEPT !.flags = IF InProgress(info.flags)
                           THEN info.flags - FLAG_BOOT_IN_PROGRESS
                           ELSE info.flags]

\* the header change of bootinfo_mark_successful
MarkSuccessfulInfo(info) ==
    [info EXCEPT !.flags = IF InProgress(info.flags)
                           THEN info.flags - FLAG_BOOT_IN_PROGRESS
                           ELSE info.flags,
                 !.failed_boots = 0]

(***************************************************************************)
(* Inputs and history records.                                             *)
(***************************************************************************)
\* names the callers pass: "a" and "_"
Names == {<<97>>, <<95>>}

\* the sets and deletes the callers make: a=x, a=y, _=x, a=, _=
SetInputs ==
    {<<(<<97>>), (<<120>>)>>, <<(<<97>>), (<<121>>)>>, <<(<<95>>), (<<120>>)>>,
     <<(<<97>>), (<<>>)>>, <<(<<95>>), (<<>>)>>}

\* what a session reads from the store: the getters and the variable list
Logical(c) ==
    [flags |-> c.curinfo.flags, failed_boots |-> c.curinfo.failed_boots,
     vars |-> c.vars]

NoState == [flags |-> -1, failed_boots |-> -1, vars |-> <<>>]

\* what an open of the device would read now
Stored(device) ==
    LET f == find_bootinfo(TRUE, device) IN
    IF f.rc = 0 THEN Logical(f.ctx) ELSE NoState

NoMap == [n \in Names |-> <<>>]

MapOf(vlist) == [n \in Names |-> bootvar_get(vlist, n)]

NoBoot == [flags |-> -1, failed_boots |-> -1]

BootOf(c) == [flags |-> c.curinfo.flags, failed_boots |-> c.curinfo.failed_boots]

Call(op, rc, err, out, pre) ==
    [op |-> op, rc |-> rc, err |-> err, out |-> out, pre |-> pre]

\* outcome: none | ok | fail | crash.  age: 0 in the session of the update,
\* 1 once that session is over, 2 in (or after a failed) next open.
NoUpd ==
    [outcome |-> "none", idx |-> -1, pre |-> NoState, post |-> NoState,
     want |-> NoMap, prevIdx |-> -1, age |-> 0, corrupt |-> FALSE]

Count(m) == IF m < 0 THEN m ELSE m + 1
Reset(m) == IF m < 0 THEN m ELSE 0

(***************************************************************************)
(* Operations.                                                             *)
(***************************************************************************)
\* Preserved without the test of the first character
Preserved_All(vlist) == vlist

\* the variables re-initialization keeps: names that begin with '_'
Preserved(vlist) == SelectSeq(vlist, LAMBDA v : v.name[1] = 95)

\* Reinit that looks at the flag only
Reinit_ForceOnly(force, f) == force

\* whether a write-mode open re-initializes the store
Reinit(force, f) == ~(f.rc = 0 /\ ~force)

\* set_bootdev_writeable_status(bootdev, make_writeable) on a device whose
\* switch reads w (TRUE: writeable): the switch afterwards, and the value
\* returned; named is FALSE for a device name too short to be one
set_bootdev_writeable_status(named, make_writeable, w) ==
    IF ~named \/ make_writeable = w
    THEN [changed |-> FALSE, writeable |-> w]
    ELSE [changed |-> TRUE, writeable |-> make_writeable]

\* what an open can meet: the runtime directory cannot be created, the
\* lockfile cannot be created, flock fails, the device cannot be opened, or
\* parse_vars cannot allocate its first entry
OpenFaults == {"none", "mkdir", "lockfile", "flock", "devopen", "parse"}

\* the switch is touched for contexts that are not read-only
GateEvent(readonly, e) == IF readonly THEN <<>> ELSE <<e>>

\* find_bootinfo returns without a context (*ctxp is NULL)
NullFound(ev, w1) ==
    [rc |-> -1, null |-> TRUE, ctx |-> NoCtx, writeable |-> w1,
     locked |-> FALSE, events |-> ev]

\* find_bootinfo once the lock is held and the device is open, f being
\* what the load of the two slots gives
Found(f, readonly, fail, off, on) ==
    IF f.rc = 0 /\ fail = "parse" /\ f.ctx.vars # <<>>
    THEN [rc |-> 0, null |-> FALSE,
          ctx |-> [f.ctx EXCEPT !.readonly = TRUE, !.vars = <<>>, !.varsize = 0],
          writeable |-> off, locked |-> TRUE,
          events |-> <<"lock">> \o GateEvent(readonly, "gate_rw")
                       \o <<"dev_open", "read">> \o GateEvent(readonly, "gate_ro")]
    ELSE [rc |-> f.rc, null |-> FALSE, ctx |-> f.ctx,
          writeable |-> on, locked |-> TRUE,
          events |-> <<"lock">> \o GateEvent(readonly, "gate_rw")
                       \o <<"dev_open", "read">>]

\* find_bootinfo with its lock, switch and device steps.  null: *ctxp is
\* NULL; locked: the process holds the lock on return; events: the steps
\* made, in order.
find_bootinfo_env(readonly, device, fail, w) ==
    LET off == IF readonly THEN w
               ELSE set_bootdev_writeable_status(TRUE, FALSE, w).writeable
        on  == IF readonly THEN w
               ELSE set_bootdev_writeable_status(TRUE, TRUE, w).writeable
    IN  CASE fail = "mkdir" ->
               NullFound(<<"close_fd0">> \o GateEvent(readonly, "gate_ro"), off)
          [] fail = "lockfile" -> NullFound(<<>>, w)
          [] fail = "flock" -> NullFound(<<>>, w)
          [] fail = "devopen" ->
               NullFound(<<"lock">> \o GateEvent(readonly, "gate_rw")
                           \o GateEvent(readonly, "gate_ro") \o <<"unlock">>, off)
          [] OTHER -> Found(find_bootinfo(readonly, device), readonly, fail, off, on)

\* BadFlags without the check
BadFlags_Never(rdonly, force) == FALSE

\* both BOOTINFO_O_RDONLY and BOOTINFO_O_FORCE_INIT are set
BadFlags(rdonly, force) == rdonly /\ force

\* the device after the first n of the four zero-fill writes
ZeroFill(device, n) ==
    [i \in 0..1 |-> [hdr |-> IF n >= 2 * i + 1 THEN ZeroHdr ELSE device[i].hdr,
                     ext |-> IF n >= 2 * i + 2 THEN ZeroExt ELSE device[i].ext]]

\* the context re-initialization creates after find_bootinfo returned f
FreshCtx(f) ==
    [ZeroCtx EXCEPT !.open = TRUE, !.current = -1,
                    !.vars = IF f.null THEN <<>> ELSE Preserved(f.ctx.vars),
                    !.lockfd = f.locked]

\* what the initialization code of bootinfo_open can meet: a variable to
\* preserve cannot be copied, the zero buffer cannot be allocated, the
\* device cannot be opened, a zero-fill write fails, the new context cannot
\* be allocated, a write of the first persist fails
InitFaults == {"varcopy", "bufalloc", "initopen", "zerofill", "ctxalloc", "persist"}

\* the progress (writes done) each failure of the initialization allows
InitProgress(fail) ==
    IF fail = "zerofill" THEN 0..3
    ELSE IF fail = "persist" THEN 0..(FullWrite - 1)
    ELSE {0}

\* error_depart of bootinfo_open: ev are the steps made so far, fdopen
\* tells whether the device was opened, device is what the device holds
Depart(f, ev, reset, fdopen, device, err) ==
    [rc |-> -1, err |-> err, ctx |-> NoCtx, dev |-> device,
     writeable |-> IF reset.changed
                   THEN set_bootdev_writeable_status(
                            TRUE, FALSE, reset.writeable).writeable
                   ELSE reset.writeable,
     locked |-> FALSE,
     events |-> ev \o (IF fdopen THEN <<"dev_close">> ELSE <<>>)
                  \o (IF f.locked THEN <<"unlock">> ELSE <<>>)
                  \o (IF reset.changed THEN <<"gate_ro">> ELSE <<>>),
     wrote |-> \E i \in 1..Len(ev) : ev[i] = "write"]

\* error_depart frees the context close_bootinfo has freed already
DoubleFree(f, fail) ==
    ~f.null /\ fail \in {"bufalloc", "devopen", "initopen", "zerofill"}

\* the initialization code of bootinfo_open, after find_bootinfo returned f
\* and close_bootinfo(ctx, true) left the switch as closed tells; n is the
\* number of writes made by the step that fails, if one does
Initialize(f, closed, reset, device, fail, n) ==
    LET ev1 == IF f.null THEN <<>>
               ELSE GateEvent(f.ctx.readonly, "gate_ro") \o <<"dev_close">>
        ev2 == f.events \o ev1 \o <<"gate_rw">>
        ev3 == ev2 \o <<"dev_open">>
    IN  CASE fail = "varcopy" /\ ~f.null /\ Preserved(f.ctx.vars) # <<>> ->
               [rc |-> -1, err |-> "ENOMEM", ctx |-> NoCtx, dev |-> device,
                writeable |-> closed.writeable, locked |-> FALSE,
                events |-> f.events \o ev1
                             \o (IF f.locked THEN <<"unlock">> ELSE <<>>),
                wrote |-> FALSE]
          [] fail = "bufalloc" ->
               Depart(f, f.events \o ev1,
                      [changed |-> FALSE, writeable |-> closed.writeable],
                      FALSE, device, "ENOMEM")
          [] fail \in {"devopen", "initopen"} ->
               Depart(f, ev2, reset, FALSE, device, "")
          [] fail = "zerofill" ->
               Depart(f, ev3 \o [i \in 1..n |-> "write"], reset, TRUE,
                      ZeroFill(device, n), "EIO")
          [] fail = "ctxalloc" ->
               Depart(f, ev3 \o <<"write", "write", "write", "write">>, reset,
                      TRUE, ZeroFill(device, 4), "ENOMEM")
          [] OTHER ->
               [bootinfo_update(FreshCtx(f), ZeroFill(device, 4),
                                IF fail = "persist" THEN n ELSE FullWrite)
                   EXCEPT !.wrote = TRUE]
               @@ [writeable |-> reset.writeable, locked |-> f.locked,
                   events |-> ev3 \o <<"write", "write", "write", "write">>
                                \o (IF fail # "persist" \/ n > 1
                                    THEN <<"write", "write">>
                                    ELSE [i \in 1..n |-> "write"])]

\* bootinfo_open after find_bootinfo returned f
Opened(f, rdonly, force, device, fail, n) ==
    IF rdonly
    THEN [rc |-> f.rc, err |-> "", ctx |-> IF f.rc = 0 THEN f.ctx ELSE NoCtx,
          dev |-> device, writeable |-> f.writeable,
          locked |-> f.locked /\ f.rc = 0, events |-> f.events, wrote |-> FALSE]
    ELSE IF ~Reinit(force, f)
    THEN [rc |-> 0, err |-> "", ctx |-> f.ctx, dev |-> device,
          writeable |-> f.writeable, locked |-> f.locked, events |-> f.events,
          wrote |-> FALSE]
    ELSE IF f.null \/ f.ctx.readonly
    THEN Initialize(f, [changed |-> FALSE, writeable |-> f.writeable],
                    set_bootdev_writeable_status(TRUE, TRUE, f.writeable),
                    device, fail, n)
    ELSE Initialize(f, set_bootdev_writeable_status(TRUE, FALSE, f.writeable),
                    set_bootdev_writeable_status(TRUE, TRUE, FALSE),
                    device, fail, n)

\* bootinfo_open(ctxp, flags) on a device whose switch reads w; n is the
\* number of writes made by the step of the initialization that fails
bootinfo_open_env(rdonly, force, device, fail, n, w) ==
    IF BadFlags(rdonly, force)
    THEN [rc |-> -1, err |-> "EINVAL", ctx |-> NoCtx, dev |-> device,
          writeable |-> w, locked |-> FALSE, events |-> <<>>, wrote |-> FALSE]
    ELSE Opened(find_bootinfo_env(rdonly, device, fail, w), rdonly, force,
                device, fail, n)

\* the fields of an open that concern the store
StoreOf(r) == [rc |-> r.rc, err |-> r.err, ctx |-> r.ctx, dev |-> r.dev]

\* bootinfo_open where nothing of the environment fails
bootinfo_open(rdonly, force, device) ==
    StoreOf(bootinfo_open_env(rdonly, force, device, "none", FullWrite, FALSE))

\* the processes that use the store: 0 is the one followed step by step
Procs == 0..NPeers
Peers == 1..NPeers

NoLocks == [p \in Procs |-> "none"]

\* flock(LOCK_SH) or flock(LOCK_EX) by process p returns at once
LockFree(p, rdonly) ==
    \A q \in Procs \ {p} : IF rdonly THEN lock[q] # "ex" ELSE lock[q] = "none"

NoEntry == [rdonly |-> FALSE, force |-> FALSE, fail |-> "none",
            writeable |-> FALSE, dev |-> <<>>]

\* the device contents at entry are kept until the next call only
InSession(e) == [e EXCEPT !.dev = <<>>]

\* a history record, where the behaviour keeps them
Keep(x, none) == IF history THEN x ELSE none

NoArg == [name |-> <<>>, value |-> <<>>, vars |-> <<>>]

\* the state after an open that returned r; reinit: it rewrote the store
AfterOpen(r, reinit, rdonly, force, fail) ==
    /\ dev' = r.dev
    /\ ctx' = r.ctx
    /\ last' = Call("open", r.rc, r.err, -1, NoBoot)
    /\ upd' = IF rdonly /\ force THEN upd
              ELSE IF upd.outcome = "reinit_crash" /\ upd.age = 1
              THEN [upd EXCEPT !.age = 2]
              ELSE IF upd.outcome # "none" /\ upd.age = 1 /\ ~reinit
              THEN [upd EXCEPT !.age = 2]
              ELSE NoUpd
    /\ implied' = IF r.ctx.open THEN MapOf(r.ctx.vars) ELSE NoMap
    /\ marks' = IF reinit THEN Reset(marks) ELSE marks
    /\ writeable' = r.writeable
    /\ lock' = [lock EXCEPT ![0] = IF ~r.locked THEN "none"
                                   ELSE IF rdonly THEN "sh" ELSE "ex"]
    /\ events' = Keep(r.events, <<>>)
    /\ entry' = Keep([rdonly |-> rdonly, force |-> force, fail |-> fail,
                      writeable |-> writeable, dev |-> dev], NoEntry)
    /\ setarg' = NoArg
    /\ UNCHANGED <<faults, history>>

OpenEnv(rdonly, force, fail) ==
    /\ ~ctx.open
    /\ \/ BadFlags(rdonly, force)
       \/ fail \in {"mkdir", "lockfile", "flock"}
       \/ LockFree(0, rdonly)
    /\ AfterOpen(bootinfo_open_env(rdonly, force, dev, fail, FullWrite, writeable),
                 bootinfo_open_env(rdonly, force, dev, fail, FullWrite, writeable).wrote,
                 rdonly, force, fail)

Open(rdonly, force) == OpenEnv(rdonly, force, "none")

\* the state after bootinfo_open died while it re-initialized the store,
\* find_bootinfo having returned f: after n of the four zero-fill writes,
\* or (n = 4) after m units of the first persist
AfterOpenCrashed(f, n, m) ==
    /\ dev' = bootinfo_update(FreshCtx(f), ZeroFill(dev, n), IF n = 4 THEN m ELSE 0).dev
    /\ upd' = [outcome |-> "reinit_crash", idx |-> 0, pre |-> Stored(dev),
               post |-> [flags |-> 0, failed_boots |-> 0, vars |-> FreshCtx(f).vars],
               want |-> NoMap, prevIdx |-> -1, age |-> 1, corrupt |-> FALSE]
    /\ ctx' = NoCtx
    /\ last' = Call("open_crashed", -1, "", -1, NoBoot)
    /\ implied' = NoMap
    /\ faults' = faults + 1
    /\ writeable' = TRUE
    /\ lock' = [lock EXCEPT ![0] = "none"]
    /\ events' = <<>>
    /\ entry' = NoEntry
    /\ setarg' = NoArg
    /\ UNCHANGED <<marks, history>>

OpenCrashed(force, n, m) ==
    /\ ~ctx.open
    /\ faults = 0
    /\ LockFree(0, FALSE)
    /\ n \in 0..4 /\ m \in 0..(FullWrite - 1) /\ (m > 0 => n = 4)
    /\ Reinit(force, find_bootinfo(FALSE, dev))
    /\ AfterOpenCrashed(find_bootinfo_env(FALSE, dev, "none", writeable), n, m)

\* bootinfo_close
Close ==
    /\ ctx.open
    /\ ctx' = NoCtx
    /\ last' = Call("close", 0, "", -1, NoBoot)
    /\ upd' = IF upd.outcome # "none" /\ upd.age = 0
              THEN [upd EXCEPT !.age = 1]
              ELSE NoUpd
    /\ implied' = NoMap
    /\ writeable' = IF ctx.readonly THEN writeable
                    ELSE set_bootdev_writeable_status(ctx.devinfo_dev, FALSE,
                                                      writeable).writeable
    /\ lock' = [lock EXCEPT ![0] = "none"]
    /\ events' = Keep((IF ~ctx.readonly /\ ctx.devinfo_dev THEN <<"gate_ro">> ELSE <<>>)
                    \o <<"dev_close">>
                    \o (IF ctx.lockfd THEN <<"unlock">> ELSE <<>>), <<>>)
    /\ entry' = NoEntry
    /\ setarg' = NoArg
    /\ UNCHANGED <<dev, marks, faults, history>>

\* BootvarSet that writes the new list to the device at once
BootvarSet_WriteThrough(name, value) ==
    /\ ctx.open
    /\ LET r == bootvar_set(ctx, name, value) IN
       /\ ctx' = r.ctx
       /\ last' = Call("bootvar_set", r.rc, r.err, -1, NoBoot)
       /\ implied' = IF r.rc = 0 THEN [implied EXCEPT ![name] = value] ELSE implied
       /\ dev' = IF r.rc = 0 THEN bootinfo_update(r.ctx, dev, FullWrite).dev ELSE dev
    /\ events' = <<>>
    /\ setarg' = Keep([name |-> name, value |-> value, vars |-> ctx.vars], NoArg)
    /\ entry' = Keep(InSession(entry), NoEntry)
    /\ UNCHANGED <<upd, marks, faults, writeable, lock, history>>

BootvarSet(name, value) ==
    /\ ctx.open
    /\ LET r == bootvar_set(ctx, name, value) IN
       /\ ctx' = r.ctx
       /\ last' = Call("bootvar_set", r.rc, r.err, -1, NoBoot)
       /\ implied' = IF r.rc = 0 THEN [implied EXCEPT ![name] = value] ELSE implied
    /\ events' = <<>>
    /\ setarg' = Keep([name |-> name, value |-> value, vars |-> ctx.vars], NoArg)
    /\ entry' = Keep(InSession(entry), NoEntry)
    /\ UNCHANGED <<dev, upd, marks, faults, writeable, lock, history>>

\* The persist step shared by update and the two mark calls, on the context
\* c1 the caller prepared.  kind: "ok" (every write completes), "fail" (a
\* write or seek returns an error after n units), "crash" (the process or
\* the power dies after n units).
Persist(c1, op, out, kind, n) ==
    LET r == bootinfo_update(c1, dev, n) IN
    /\ dev' = r.dev
    /\ ctx' = IF kind = "crash" THEN NoCtx ELSE r.ctx
    /\ last' = Call(op, r.rc, r.err, out, BootOf(ctx))
    /\ upd' = IF c1.readonly THEN upd
              ELSE [outcome |-> IF kind = "crash" THEN "crash"
                                ELSE IF r.rc = 0 THEN "ok" ELSE "fail",
                    idx     |-> DestIdx(c1),
                    pre     |-> Stored(dev),
                    post    |-> Logical(c1),
                    want    |-> implied,
                    prevIdx |-> IF upd.outcome = "ok" THEN upd.idx ELSE -1,
                    age     |-> IF kind = "crash" THEN 1 ELSE 0,
                    corrupt |-> FALSE]
    /\ implied' = IF kind = "crash" THEN NoMap ELSE implied
    /\ faults' = IF kind = "ok" THEN faults ELSE faults + 1
    /\ lock' = IF kind = "crash" THEN [lock EXCEPT ![0] = "none"] ELSE lock
    /\ events' = Keep(IF ~r.wrote \/ n = 0 THEN <<>>
                 ELSE IF n = 1 THEN <<"write">> ELSE <<"write", "write">>, <<>>)
    /\ entry' = Keep(IF kind = "crash" THEN NoEntry ELSE InSession(entry), NoEntry)
    /\ setarg' = NoArg
    /\ UNCHANGED <<writeable, history>>

\* the write progress each kind of outcome allows; a behaviour holds at
\* most one fault (a failed write, a crash, or a corrupted byte)
Progress(kind) ==
    IF kind = "ok" THEN {FullWrite}
    ELSE IF faults = 0 THEN 0..(FullWrite - 1) ELSE {}

\* bootinfo_update called by the application
Update(kind, n) ==
    /\ ctx.open
    /\ n \in Progress(kind)
    /\ Persist(ctx, "update", -1, kind, n)
    /\ UNCHANGED marks

\* a mutating call refused on a read-only context
Refused(op) ==
    /\ last' = Call(op, -1, "EROFS", -1, BootOf(ctx))
    /\ events' = <<>>
    /\ setarg' = NoArg
    /\ entry' = Keep(InSession(entry), NoEntry)
    /\ UNCHANGED <<dev, ctx, upd, implied, marks, faults, writeable, lock, history>>

\* bootinfo_mark_in_progress
MarkInProgress(kind, n) ==
    /\ ctx.open
    /\ n \in Progress(kind)
    /\ IF ctx.readonly
       THEN Refused("mark_in_progress")
       ELSE LET c1 == [ctx EXCEPT !.curinfo = MarkInProgressInfo(ctx.curinfo)] IN
            /\ Persist(c1, "mark_in_progress", c1.curinfo.failed_boots, kind, n)
            /\ marks' = Count(marks)

\* MarkSuccessful that leaves the read-only check to bootinfo_update
MarkSuccessful_NoCheck(kind, n) ==
    /\ ctx.open
    /\ n \in Progress(kind)
    /\ LET c1 == [ctx EXCEPT !.curinfo = MarkSuccessfulInfo(ctx.curinfo)] IN
       /\ Persist(c1, "mark_successful", ctx.curinfo.failed_boots, kind, n)
       /\ marks' = Reset(marks)

\* bootinfo_mark_successful
MarkSuccessful(kind, n) ==
    /\ ctx.open
    /\ n \in Progress(kind)
    /\ IF ctx.readonly
       THEN Refused("mark_successful")
       ELSE LET c1 == [ctx EXCEPT !.curinfo = MarkSuccessfulInfo(ctx.curinfo)] IN
            /\ Persist(c1, "mark_successful", ctx.curinfo.failed_boots, kind, n)
            /\ marks' = Reset(marks)

\* another process opens a session: only its lock is followed
PeerOpen(p, rdonly) ==
    /\ lock[p] = "none"
    /\ LockFree(p, rdonly)
    /\ lock' = [lock EXCEPT ![p] = IF rdonly THEN "sh" ELSE "ex"]
    /\ UNCHANGED <<dev, ctx, last, upd, implied, marks, faults, writeable,
                   events, entry, setarg, history>>

\* another process closes its session
PeerClose(p) ==
    /\ lock[p] # "none"
    /\ lock' = [lock EXCEPT ![p] = "none"]
    /\ UNCHANGED <<dev, ctx, last, upd, implied, marks, faults, writeable,
                   events, entry, setarg, history>>

(***************************************************************************)
(* Spec: the store under sessions, sets, persists, failures and crashes.   *)
(***************************************************************************)
Blank == [i \in 0..1 |-> ZeroSlot]

Init ==
    /\ dev = Blank
    /\ ctx = NoCtx
    /\ last = Call("none", 0, "", -1, NoBoot)
    /\ upd = NoUpd
    /\ implied = NoMap
    /\ marks = -1
    /\ faults = 0
    /\ writeable = FALSE
    /\ lock = NoLocks
    /\ events = <<>>
    /\ entry = NoEntry
    /\ setarg = NoArg
    /\ history = FALSE

\* the serial number of the slot an open would select, 0 if none
StoredSernum(device) ==
    LET f == find_bootinfo(TRUE, device) IN
    IF f.rc = 0 THEN f.ctx.curinfo.sernum ELSE 0

OpenRead == Open(TRUE, FALSE)
OpenWrite == StoredSernum(dev) < MaxSerial /\ Open(FALSE, FALSE)
OpenForce == Open(FALSE, TRUE)
OpenBadFlags == Open(TRUE, TRUE)
SetVar == \E in \in SetInputs : BootvarSet(in[1], in[2])
Persisted == Update("ok", FullWrite)

Next ==
    \/ OpenRead
    \/ OpenWrite
    \/ OpenForce
    \/ OpenBadFlags
    \/ SetVar
    \/ Persisted
    \/ Close

Spec == Init /\ [][Next]_vars

(***************************************************************************)
(* SpecCrash: the same store when a write of an update can fail or be cut  *)
(* short by a crash, at any point of its progress.                         *)
(***************************************************************************)
\* the sets and deletes made under SpecCrash: a=x, _=x, a=, _=
CrashInputs ==
    {<<(<<97>>), (<<120>>)>>, <<(<<95>>), (<<120>>)>>,
     <<(<<97>>), (<<>>)>>, <<(<<95>>), (<<>>)>>}

CrashSetVar == \E in \in CrashInputs : BootvarSet(in[1], in[2])
PersistFailed == \E n \in 0..FullWrite : Update("fail", n)
PersistCrashed == \E n \in 0..FullWrite : Update("crash", n)

NextCrash ==
    \/ OpenRead
    \/ OpenWrite
    \/ OpenForce
    \/ CrashSetVar
    \/ Persisted
    \/ PersistFailed
    \/ PersistCrashed
    \/ Close

SpecCrash == Init /\ [][NextCrash]_vars

(***************************************************************************)
(* Stores the program leaves behind, as initial states.                    *)
(***************************************************************************)
\* the slot bootinfo_update writes for a header with this boot state and
\* serial number and for this variable list
WrittenSlot(flags, failed_boots, sernum, vlist) ==
    BuildSlot([ZeroCtx EXCEPT !.curinfo.flags = flags,
                              !.curinfo.failed_boots = failed_boots,
                              !.curinfo.sernum = (sernum + UINT8_RANGE - 1) % UINT8_RANGE,
                              !.vars = vlist], 0).buf

Idle(device) ==
    /\ dev = device
    /\ ctx = NoCtx
    /\ last = Call("none", 0, "", -1, NoBoot)
    /\ upd = NoUpd
    /\ implied = NoMap
    /\ faults = 0
    /\ writeable = FALSE
    /\ lock = NoLocks
    /\ events = <<>>
    /\ entry = NoEntry
    /\ setarg = NoArg
    /\ history = FALSE

\* the store after rk-bootinfo --initialize on a blank device
Initialized == bootinfo_open(FALSE, FALSE, Blank).dev

(***************************************************************************)
(* SpecCorrupt: one byte of the slot an update wrote is changed outside    *)
(* the program, between two sessions.                                      *)
(***************************************************************************)
\* byte values an outside write leaves
SampleBytes == {0, 1, 97}

BadCrc == [crc32_of |-> <<-1>>]

\* the slots that differ from slot in one byte
SingleByteChanges(slot) ==
    (   {[slot EXCEPT !.hdr.magic[k] = b] : k \in 1..8, b \in SampleBytes}
     \cup {[slot EXCEPT !.hdr.devinfo_version = v] :
              v \in SampleBytes \cup {(slot.hdr.devinfo_version % 256) + 256}}
     \cup {[slot EXCEPT !.hdr.flags = b] : b \in SampleBytes}
     \cup {[slot EXCEPT !.hdr.failed_boots = b] : b \in SampleBytes}
     \cup {[slot EXCEPT !.hdr.crcsum = BadCrc]}
     \cup {[slot EXCEPT !.hdr.sernum = b] : b \in SampleBytes}
     \cup {[slot EXCEPT !.hdr.unused__ = b] : b \in SampleBytes}
     \cup {[slot EXCEPT !.hdr.ext_sectors = v] :
              v \in {slot.hdr.ext_sectors - 1, slot.hdr.ext_sectors % 256}}
     \cup {[slot EXCEPT !.hdr.vars[k] = b] : k \in 1..HdrVarBytes, b \in SampleBytes}
     \cup {[slot EXCEPT !.ext.vars[k] = b] : k \in 1..ExtVarBytes, b \in SampleBytes}
     \cup {[slot EXCEPT !.ext.crc = BadCrc]}
    ) \ {slot}

Corrupt ==
    /\ ~ctx.open
    /\ upd.outcome = "ok" /\ upd.age = 1
    /\ faults = 0
    /\ \E bad \in SingleByteChanges(dev[upd.idx]) : dev' = [dev EXCEPT ![upd.idx] = bad]
    /\ upd' = [upd EXCEPT !.corrupt = TRUE]
    /\ faults' = 1
    /\ UNCHANGED <<ctx, last, implied, marks, writeable, lock, events, entry, setarg,
                   history>>

InitCorrupt == Idle(Initialized) /\ marks = -1

NextCorrupt ==
    \/ OpenRead
    \/ OpenWrite
    \/ CrashSetVar
    \/ Persisted
    \/ Close
    \/ Corrupt

SpecCorrupt == InitCorrupt /\ [][NextCorrupt]_vars

(***************************************************************************)
(* SpecSerial: persists from a store whose current slot holds any serial.  *)
(***************************************************************************)
InitSerial ==
    \E cur \in 0..1, s \in 0..(UINT8_RANGE - 1), both \in BOOLEAN :
        /\ Idle([i \in 0..1 |->
                   IF i = cur THEN WrittenSlot(0, 0, s, <<>>)
                   ELSE IF both
                        THEN WrittenSlot(0, 0, (s + UINT8_RANGE - 1) % UINT8_RANGE, <<>>)
                        ELSE ZeroSlot])
        /\ marks = -1

SerialOpenWrite == Open(FALSE, FALSE)

NextSerial ==
    \/ OpenRead
    \/ SerialOpenWrite
    \/ Persisted
    \/ Close

SpecSerial == InitSerial /\ [][NextSerial]_vars

(***************************************************************************)
(* SpecSelect: open on every combination of slot validity and serials.     *)
(***************************************************************************)
InitSelect ==
    \E v0 \in BOOLEAN, v1 \in BOOLEAN,
       s0 \in 0..(UINT8_RANGE - 1), s1 \in 0..(UINT8_RANGE - 1) :
        /\ Idle([i \in 0..1 |->
                   LET slot == WrittenSlot(0, 0, IF i = 0 THEN s0 ELSE s1, <<>>) IN
                   IF (i = 0 /\ v0) \/ (i = 1 /\ v1)
                   THEN slot
                   ELSE [slot EXCEPT !.ext.crc = BadCrc]])
        /\ marks = -1

NextSelect == OpenRead

SpecSelect == InitSelect /\ [][NextSelect]_vars

(***************************************************************************)
(* SpecMark: the two mark calls from every boot state the store can hold.  *)
(***************************************************************************)
InitMark ==
    \E flags \in 0..1, n \in 0..(UINT8_RANGE - 1) :
        /\ flags = 0 => n = 0
        /\ Idle([i \in 0..1 |-> IF i = 0 THEN WrittenSlot(flags, n, 1, <<>>) ELSE ZeroSlot])
        /\ marks = 0

MarkStarted ==
    /\ marks < MaxMarkCalls
    /\ \E kind \in {"ok", "fail"}, n \in 0..FullWrite : MarkInProgress(kind, n)

MarkSucceeded == \E kind \in {"ok", "fail"}, n \in 0..FullWrite : MarkSuccessful(kind, n)

NextMark ==
    \/ OpenRead
    \/ OpenWrite
    \/ MarkStarted
    \/ MarkSucceeded
    \/ Close

SpecMark == InitMark /\ [][NextMark]_vars

(***************************************************************************)
(* SpecBoot: consecutive mark_in_progress calls from a blank device.       *)
(***************************************************************************)
InitBoot == Idle(Blank) /\ marks = 0

BootOpenWrite == StoredSernum(dev) < MaxBootSerial /\ Open(FALSE, FALSE)

BootStarted == marks < MaxBootMarks /\ MarkInProgress("ok", FullWrite)

NextBoot ==
    \/ OpenRead
    \/ BootOpenWrite
    \/ BootStarted
    \/ Close

SpecBoot == InitBoot /\ [][NextBoot]_vars

(***************************************************************************)
(* SpecEnv: sessions of every kind, opened under every condition of the    *)
(* environment, next to other processes that take the lock.                *)
(***************************************************************************)
\* variable lists of the stores SpecEnv starts from: a=x _=x, and _=x __=y
MixedVars == <<[name |-> <<97>>, value |-> <<120>>], [name |-> <<95>>, value |-> <<120>>]>>
KeptVars == <<[name |-> <<95>>, value |-> <<120>>], [name |-> <<95, 95>>, value |-> <<121>>]>>

\* a blank device, an initialized store, stores with variables and boot
\* state in either slot, and a device whose only record is torn
EnvStores ==
    {Blank, Initialized,
     [i \in 0..1 |-> IF i = 0 THEN WrittenSlot(0, 0, 1, <<>>)
                     ELSE WrittenSlot(1, 1, 2, MixedVars)],
     [i \in 0..1 |-> IF i = 0 THEN WrittenSlot(0, 0, 2, KeptVars)
                     ELSE WrittenSlot(0, 0, 1, <<>>)],
     [i \in 0..1 |-> IF i = 0 THEN [WrittenSlot(0, 0, 1, <<>>) EXCEPT !.ext.crc = BadCrc]
                     ELSE ZeroSlot]}

InitEnv ==
    /\ dev \in EnvStores
    /\ writeable \in BOOLEAN
    /\ ctx = NoCtx
    /\ last = Call("none", 0, "", -1, NoBoot)
    /\ upd = NoUpd
    /\ implied = NoMap
    /\ marks = -1
    /\ faults = 0
    /\ lock = NoLocks
    /\ events = <<>>
    /\ entry = NoEntry
    /\ setarg = NoArg
    /\ history = TRUE

\* the set made under SpecEnv: a=y
EnvInputs == {<<(<<97>>), (<<121>>)>>}

EnvOpen ==
    \E rdonly \in BOOLEAN, force \in BOOLEAN, fail \in OpenFaults :
        /\ rdonly \/ force \/ StoredSernum(dev) < MaxSerial
        /\ OpenEnv(rdonly, force, fail)

EnvSetVar == \E in \in EnvInputs : BootvarSet(in[1], in[2])

EnvMarkStarted ==
    /\ ctx.curinfo.failed_boots < MaxEnvFailed
    /\ MarkInProgress("ok", FullWrite)

EnvMarkSucceeded == MarkSuccessful("ok", FullWrite)

EnvPeerOpen == \E p \in Peers, rdonly \in BOOLEAN : PeerOpen(p, rdonly)

EnvPeerClose == \E p \in Peers : PeerClose(p)

NextEnv ==
    \/ EnvOpen
    \/ EnvSetVar
    \/ Persisted
    \/ EnvMarkStarted
    \/ EnvMarkSucceeded
    \/ Close
    \/ EnvPeerOpen
    \/ EnvPeerClose

SpecEnv == InitEnv /\ [][NextEnv]_vars

(***************************************************************************)
(* SpecFail: write-mode opens whose initialization code fails at each of   *)
(* its steps, and what the process does next.                              *)
(***************************************************************************)
\* bootinfo_open(ctxp, flags) without BOOTINFO_O_RDONLY re-initializes and
\* the step fail of the initialization fails after n writes; abort: the
\* second free of the context kills the process (err SIGABRT) instead of
\* letting the open return
FailOpen ==
    \E force \in BOOLEAN, fail \in InitFaults, abort \in BOOLEAN :
    \E n \in InitProgress(fail) :
        /\ ~ctx.open
        /\ LockFree(0, FALSE)
        /\ Reinit(force, find_bootinfo(FALSE, dev))
        /\ fail = "varcopy" => Preserved(find_bootinfo(FALSE, dev).ctx.vars) # <<>>
        /\ abort => DoubleFree(find_bootinfo_env(FALSE, dev, "none", writeable), fail)
        /\ AfterOpen(IF abort
                     THEN [bootinfo_open_env(FALSE, force, dev, fail, n, writeable)
                              EXCEPT !.err = "SIGABRT"]
                     ELSE bootinfo_open_env(FALSE, force, dev, fail, n, writeable),
                     bootinfo_open_env(FALSE, force, dev, fail, n, writeable).wrote,
                     FALSE, force, fail)

\* a write-mode open in which nothing fails
FailOpenWrite ==
    \E force \in BOOLEAN :
        /\ force \/ StoredSernum(dev) < MaxSerial
        /\ Open(FALSE, force)

\* bootinfo_open called again by a process whose failed open left the lock
\* held on a descriptor the process no longer knows: flock on the new
\* descriptor waits for the old one
FailRetry ==
    /\ last.op # "open_blocked"
    /\ ctx.open /\ ctx.lockfd
    /\ last.op = "open" /\ last.rc = -1
    /\ last' = Call("open_blocked", -1, "", -1, NoBoot)
    /\ UNCHANGED <<dev, ctx, upd, implied, marks, faults, writeable, lock,
                   events, entry, setarg, history>>

\* the process exits: the kernel closes its descriptors
FailExit ==
    /\ ctx.open
    /\ ctx' = NoCtx
    /\ last' = Call("exit", 0, "", -1, NoBoot)
    /\ upd' = NoUpd
    /\ implied' = NoMap
    /\ lock' = [lock EXCEPT ![0] = "none"]
    /\ events' = <<>>
    /\ entry' = NoEntry
    /\ setarg' = NoArg
    /\ UNCHANGED <<dev, marks, faults, writeable, history>>

\* bootinfo_close, by a process that is not waiting in flock
FailClose == last.op # "open_blocked" /\ Close

NextFail ==
    \/ FailOpen
    \/ FailOpenWrite
    \/ FailRetry
    \/ FailExit
    \/ FailClose

SpecFail == InitEnv /\ [][NextFail]_vars

(***************************************************************************)
(* SpecIO: the transfer loops of the library, one read or write call at a  *)
(* time.  Here events holds the values the calls of the loop returned.     *)
(***************************************************************************)
\* the loops: the slot load of find_bootinfo, the writes of bootinfo_update,
\* the zero fill of bootinfo_open
IoLoops == {"load", "update", "zerofill"}

\* for (n = 0; n < SIZE; n += cnt) { cnt = read or write(.., SIZE-n);
\* if (cnt < 0) break or return; } after the calls returned cnts, n bytes
\* having been transferred before them
RECURSIVE LoopAfter(_, _)
LoopAfter(n, cnts) ==
    IF n >= IoSize THEN [n |-> n, state |-> "done"]
    ELSE IF cnts = <<>> THEN [n |-> n, state |-> "running"]
    ELSE IF Head(cnts) < 0 THEN [n |-> n, state |-> "failed"]
    ELSE LoopAfter(n + Head(cnts), Tail(cnts))

\* the library enters one of its loops
IoStart ==
    \E loop \in IoLoops :
        /\ last.op \in IoLoops => LoopAfter(0, events).state # "running"
        /\ last' = Call(loop, 0, "", -1, NoBoot)
        /\ events' = <<>>
        /\ UNCHANGED <<dev, ctx, upd, implied, marks, faults, writeable, lock,
                       entry, setarg, history>>

\* one read or write call of the loop returns cnt: an error, nothing, a
\* part of what was asked for or all of it
IoTransfer ==
    \E cnt \in -1..IoSize :
        /\ last.op \in IoLoops
        /\ LoopAfter(0, events).state = "running"
        /\ Len(events) < MaxIoCalls
        /\ cnt <= IoSize - LoopAfter(0, events).n
        /\ events' = Append(events, cnt)
        /\ last' = IF LoopAfter(0, Append(events, cnt)).state = "failed"
                   THEN Call(last.op, -1, "EIO", -1, NoBoot)
                   ELSE last
        /\ UNCHANGED <<dev, ctx, upd, implied, marks, faults, writeable, lock,
                       entry, setarg, history>>

NextIO ==
    \/ IoStart
    \/ IoTransfer

SpecIO == InitEnv /\ [][NextIO]_vars

(***************************************************************************)
(* SpecCheck: the rk-bootinfo commands run at boot, one invocation a step. *)
(* Here marks counts the check-status invocations since the last boot      *)
(* recorded as successful or reported as failed too often.                 *)
(***************************************************************************)
MAX_BOOT_FAILURES == 3

\* boot_check_status after bootinfo_mark_in_progress returned u1 and the
\* count failed_boots; n2 units of the persist of mark_successful reach
\* the device
CheckMarked(u1, failed_boots, n2) ==
    IF u1.rc < 0
    THEN [rc |-> 1, err |-> "bootinfo_mark_in_progress", out |-> failed_boots,
          dev |-> u1.dev]
    ELSE IF failed_boots >= MAX_BOOT_FAILURES
    THEN [rc |-> 77,
          err |-> IF n2 = FullWrite THEN "" ELSE "ignored",
          out |-> failed_boots,
          dev |-> bootinfo_update(
                      [u1.ctx EXCEPT !.curinfo = MarkSuccessfulInfo(u1.ctx.curinfo)],
                      u1.dev, n2).dev]
    ELSE [rc |-> 0, err |-> "", out |-> failed_boots, dev |-> u1.dev]

\* boot_check_status after bootinfo_open returned r
CheckOpened(r, n1, n2) ==
    IF r.rc < 0
    THEN [rc |-> 1, err |-> "bootinfo_open", out |-> -1, dev |-> r.dev]
    ELSE CheckMarked(
             bootinfo_update(
                 [r.ctx EXCEPT !.curinfo = MarkInProgressInfo(r.ctx.curinfo)],
                 r.dev, n1),
             MarkInProgressInfo(r.ctx.curinfo).failed_boots, n2)

\* boot_check_status: the exit code, the count it read and the device it
\* leaves; n1 and n2 units of its two persists reach the device
boot_check_status(device, n1, n2) ==
    CheckOpened(bootinfo_open(FALSE, FALSE, device), n1, n2)

\* rk-bootinfo --check-status
CheckStatus ==
    \E n1 \in 0..FullWrite, n2 \in 0..FullWrite :
        /\ n1 = FullWrite \/ n2 = FullWrite
        /\ (n1 < FullWrite \/ n2 < FullWrite) => faults = 0
        /\ dev' = boot_check_status(dev, n1, n2).dev
        /\ last' = Call("check_status", boot_check_status(dev, n1, n2).rc,
                        boot_check_status(dev, n1, n2).err,
                        boot_check_status(dev, n1, n2).out, NoBoot)
        /\ marks' = IF boot_check_status(dev, n1, n2).rc = 77 THEN 0 ELSE marks + 1
        /\ faults' = IF boot_check_status(dev, n1, n2).err = "" THEN faults
                     ELSE faults + 1
        /\ UNCHANGED <<ctx, upd, implied, writeable, lock, events, entry,
                       setarg, history>>

\* rk-bootinfo --boot-success: boot_successful, in which nothing fails
BootSuccess ==
    /\ marks > 0
    /\ dev' = bootinfo_update(
                  [bootinfo_open(FALSE, FALSE, dev).ctx EXCEPT
                      !.curinfo = MarkSuccessfulInfo(
                                      bootinfo_open(FALSE, FALSE, dev).ctx.curinfo)],
                  bootinfo_open(FALSE, FALSE, dev).dev, FullWrite).dev
    /\ last' = Call("boot_success", 0, "", -1, NoBoot)
    /\ marks' = 0
    /\ UNCHANGED <<ctx, upd, implied, faults, writeable, lock, events, entry,
                   setarg, history>>

NextCheck ==
    \/ CheckStatus
    \/ BootSuccess

SpecCheck == InitBoot /\ [][NextCheck]_vars

(***************************************************************************)
(* SpecLoader: one run of rk-update-bootloader, one system call a step.    *)
(* Here dev holds what is on the medium for each copy, and ctx the         *)
(* position of the program and the pages the kernel has not written back.  *)
(* A copy holds the image it was given before ("old"), the image of this   *)
(* run ("new"), that image followed by other bytes ("tail"), zeroes        *)
(* ("zero"), or a part of what a write was putting there ("torn").         *)
(***************************************************************************)
UBOOT_COPIES == 2
IDBLOCK_COPIES == 5

\* copies 1..2 are those of the uboot partition, 3..4 the U-Boot copies
\* of /dev/mmcblk0, 5..9 its idblock copies
PartCopies == 1..UBOOT_COPIES
UbootCopies == 1..(2 * UBOOT_COPIES)
IdblockCopies == (2 * UBOOT_COPIES + 1)..(2 * UBOOT_COPIES + IDBLOCK_COPIES)
Copies == UbootCopies \cup IdblockCopies

\* the copies a run looks at, copycount being those of the partition
Checked(copycount) == {k \in Copies : k \in PartCopies => k <= copycount}

\* a comparison that never finds a copy equal to the image
Matches_Never(content) == FALSE

\* memcmp(buf, image, image_len) = 0
Matches(content) == content \in {"new", "tail"}

\* what a read of copy k returns: the page cache before the medium
Visible(c, device, k) == IF c.cache[k] # "clean" THEN c.cache[k] ELSE device[k]

Clean == [k \in Copies |-> "clean"]

\* the program after it is done with copy k: the fsync that ends
\* process_uboot and process_idblock in update mode, or the next copy
AfterCopy(c, k) ==
    IF k \in {c.copycount, 2 * UBOOT_COPIES, 2 * UBOOT_COPIES + IDBLOCK_COPIES}
       /\ c.update
    THEN [c EXCEPT !.pc = "sync"]
    ELSE IF k = 2 * UBOOT_COPIES + IDBLOCK_COPIES
    THEN [c EXCEPT !.pc = "exit"]
    ELSE [c EXCEPT !.pc = "read",
                   !.i = IF k = c.copycount THEN UBOOT_COPIES + 1 ELSE k + 1]

\* the exit status of main once every copy was processed
ExitCode(c) == IF c.update \/ c.count = 0 THEN 0 ELSE 1

\* the record of a run that has ended with status rc; err names the call
\* that failed, if one did
Exited(c, rc, err) == Call("exit", rc, err, c.count, NoBoot)

InitLoader ==
    \E update \in BOOLEAN, copycount \in 0..UBOOT_COPIES, k \in 0..IDBLOCK_COPIES,
       flip \in BOOLEAN, u \in [UbootCopies -> {"old", "new", "tail"}] :
        /\ \A j \in UbootCopies : u[j] = "tail" => j = 2 * UBOOT_COPIES
        /\ dev = [j \in Copies |->
                    IF j \in UbootCopies THEN u[j]
                    ELSE IF (j - 2 * UBOOT_COPIES <= k) = flip THEN "new" ELSE "old"]
        /\ ctx = [update |-> update, copycount |-> copycount,
                  i |-> IF copycount = 0 THEN UBOOT_COPIES + 1 ELSE 1,
                  pc |-> "read", cache |-> Clean, count |-> 0, written |-> {}]
        /\ entry = [NoEntry EXCEPT !.dev = dev]
        /\ last = Call("none", 0, "", -1, NoBoot)
        /\ upd = NoUpd
        /\ implied = NoMap
        /\ marks = -1
        /\ faults = 0
        /\ writeable = FALSE
        /\ lock = NoLocks
        /\ events = <<>>
        /\ setarg = NoArg
        /\ history = TRUE

\* read_completely_at and memcmp for copy ctx.i
LoaderRead ==
    \E ok \in BOOLEAN :
        /\ ctx.pc = "read"
        /\ IF ~ok
           THEN /\ ctx' = [ctx EXCEPT !.pc = "exit"]
                /\ last' = Exited(ctx, 1, "read")
           ELSE IF Matches(Visible(ctx, dev, ctx.i))
           THEN /\ ctx' = AfterCopy(ctx, ctx.i)
                /\ last' = IF AfterCopy(ctx, ctx.i).pc = "exit"
                           THEN Exited(ctx, ExitCode(ctx), "") ELSE last
           ELSE IF ctx.update
           THEN /\ ctx' = [ctx EXCEPT !.pc = "erase", !.count = ctx.count + 1]
                /\ last' = last
           ELSE /\ ctx' = AfterCopy([ctx EXCEPT !.count = ctx.count + 1], ctx.i)
                /\ last' = IF ctx'.pc = "exit"
                           THEN Exited(ctx', ExitCode(ctx'), "") ELSE last
        /\ UNCHANGED <<dev, upd, implied, marks, faults, writeable, lock, events,
                       entry, setarg, history>>

\* write_completely_at: the zeroes written over the whole copy
LoaderErase ==
    \E ok \in BOOLEAN :
        /\ ctx.pc = "erase"
        /\ ctx' = [ctx EXCEPT !.pc = IF ok THEN "fsync" ELSE "exit",
                              !.cache[ctx.i] = IF ok THEN "zero" ELSE "torn"]
        /\ last' = IF ok THEN last ELSE Exited(ctx, 1, "write")
        /\ UNCHANGED <<dev, upd, implied, marks, faults, writeable, lock, events,
                       entry, setarg, history>>

\* fsync(fd): every page not yet written back reaches the medium
LoaderFsync ==
    /\ ctx.pc \in {"fsync", "sync"}
    /\ dev' = [k \in Copies |-> Visible(ctx, dev, k)]
    /\ ctx' = IF ctx.pc = "fsync"
              THEN [ctx EXCEPT !.pc = "write", !.cache = Clean]
              ELSE IF ctx.i = 2 * UBOOT_COPIES + IDBLOCK_COPIES
              THEN [ctx EXCEPT !.pc = "exit", !.cache = Clean]
              ELSE [ctx EXCEPT !.pc = "read", !.cache = Clean,
                               !.i = IF ctx.i = ctx.copycount THEN UBOOT_COPIES + 1
                                     ELSE ctx.i + 1]
    /\ last' = IF ctx'.pc = "exit" THEN Exited(ctx, ExitCode(ctx), "") ELSE last
    /\ UNCHANGED <<upd, implied, marks, faults, writeable, lock, events,
                   entry, setarg, history>>

\* write_completely_at: the image written at the start of the copy
LoaderWrite ==
    \E ok \in BOOLEAN :
        /\ ctx.pc = "write"
        /\ ctx' = IF ok
                  THEN AfterCopy([ctx EXCEPT !.cache[ctx.i] = "new",
                                             !.written = ctx.written \cup {ctx.i}],
                                 ctx.i)
                  ELSE [ctx EXCEPT !.pc = "exit", !.cache[ctx.i] = "torn",
                                   !.written = ctx.written \cup {ctx.i}]
        /\ last' = IF ok THEN last ELSE Exited(ctx, 1, "write")
        /\ UNCHANGED <<dev, upd, implied, marks, faults, writeable, lock, events,
                       entry, setarg, history>>

\* the kernel writes the pages of one copy back to the medium
Writeback ==
    \E k \in Copies :
        /\ ctx.cache[k] # "clean"
        /\ dev' = [dev EXCEPT ![k] = ctx.cache[k]]
        /\ ctx' = [ctx EXCEPT !.cache[k] = "clean"]
        /\ UNCHANGED <<last, upd, implied, marks, faults, writeable, lock, events,
                       entry, setarg, history>>

NextLoader ==
    \/ LoaderRead
    \/ LoaderErase
    \/ LoaderFsync
    \/ LoaderWrite
    \/ Writeback

SpecLoader == InitLoader /\ [][NextLoader]_vars

(***************************************************************************)
(* SpecOtp: invocations of rk-otp-tool, one after another.  Here dev is    *)
(* the machine ID field of the OTP OEM zone, a byte being "NUL" until it   *)
(* is programmed, events the commands the invocation sent to the trusted   *)
(* application, and marks the number of writes that returned success.      *)
(***************************************************************************)
\* sizeof(machineid), 32 in the source
OtpIdLen == 2
MaxOtpWrites == 2

OtpChars == {"0", "1", "a", "g"}

OtpArgs == UNION {[1..n -> OtpChars] : n \in {OtpIdLen - 1, OtpIdLen}}

OtpBlank == [i \in 1..OtpIdLen |-> "NUL"]

isxdigit(c) == c \in {"0", "1", "a"}

allsame(c, buf) == \A i \in 1..Len(buf) : buf[i] = c

\* the test main makes of the argument of --set-machine-id
machineid_ok(optarg) ==
    /\ Len(optarg) = OtpIdLen
    /\ \A i \in 1..Len(optarg) : isxdigit(optarg[i])
    /\ ~allsame("0", optarg)

\* res is what TEEC_InvokeCommand does: "ok", "fail" with nothing
\* programmed, or "partial" with the first byte programmed
access_oem_np_otp_zone(op, zone, buf, res) ==
    IF op = "OTP_READ"
    THEN [rc |-> IF res = "ok" THEN 0 ELSE -1, out |-> zone, zone |-> zone]
    ELSE [rc |-> IF res = "ok" THEN 0 ELSE -1, out |-> buf,
          zone |-> IF res = "ok" THEN buf
                   ELSE IF res = "partial" THEN [zone EXCEPT ![1] = buf[1]]
                   ELSE zone]

\* a set that writes without looking at what the zone holds
set_machine_id_NoCheck(zone, machineid, r1, r2) ==
    [rc |-> IF access_oem_np_otp_zone("OTP_WRITE", zone, machineid, r2).rc < 0
            THEN 1 ELSE 0,
     zone |-> access_oem_np_otp_zone("OTP_WRITE", zone, machineid, r2).zone,
     sent |-> <<"OTP_WRITE">>]

set_machine_id(zone, machineid, r1, r2) ==
    IF access_oem_np_otp_zone("OTP_READ", zone, <<>>, r1).rc < 0
    THEN [rc |-> 1, zone |-> zone, sent |-> <<"OTP_READ">>]
    ELSE IF ~allsame("NUL", access_oem_np_otp_zone("OTP_READ", zone, <<>>, r1).out)
    THEN [rc |-> 1, zone |-> zone, sent |-> <<"OTP_READ">>]
    ELSE [rc |-> IF access_oem_np_otp_zone("OTP_WRITE", zone, machineid, r2).rc < 0
                 THEN 1 ELSE 0,
          zone |-> access_oem_np_otp_zone("OTP_WRITE", zone, machineid, r2).zone,
          sent |-> <<"OTP_READ", "OTP_WRITE">>]

show_machine_id(zone, r1) ==
    IF access_oem_np_otp_zone("OTP_READ", zone, <<>>, r1).rc < 0 THEN 1
    ELSE IF allsame("NUL", access_oem_np_otp_zone("OTP_READ", zone, <<>>, r1).out)
    THEN 1
    ELSE 0

InitOtp ==
    /\ dev = OtpBlank
    /\ ctx = NoCtx
    /\ last = Call("none", 0, "", -1, NoBoot)
    /\ upd = NoUpd
    /\ implied = NoMap
    /\ marks = 0
    /\ faults = 0
    /\ writeable = FALSE
    /\ lock = NoLocks
    /\ events = <<>>
    /\ entry = NoEntry
    /\ setarg = NoArg
    /\ history = TRUE

\* rk-otp-tool --set-machine-id optarg
SetMachineId ==
    \E optarg \in OtpArgs, r1 \in {"ok", "fail"}, r2 \in {"ok", "fail", "partial"} :
        /\ marks < MaxOtpWrites
        /\ setarg' = [NoArg EXCEPT !.name = optarg]
        /\ IF ~machineid_ok(optarg)
           THEN /\ last' = Call("set-machine-id", 1, "usage", -1, NoBoot)
                /\ events' = <<>>
                /\ UNCHANGED <<dev, marks>>
           ELSE /\ dev' = set_machine_id(dev, optarg, r1, r2).zone
                /\ events' = set_machine_id(dev, optarg, r1, r2).sent
                /\ last' = Call("set-machine-id",
                                set_machine_id(dev, optarg, r1, r2).rc, "", -1, NoBoot)
                /\ marks' = IF last'.rc = 0 THEN marks + 1 ELSE marks
        /\ UNCHANGED <<ctx, upd, implied, faults, writeable, lock, entry, history>>

\* rk-otp-tool --show-machine-id
ShowMachineId ==
    \E r1 \in {"ok", "fail"} :
        /\ last' = Call("show-machine-id", show_machine_id(dev, r1), "", -1, NoBoot)
        /\ events' = <<"OTP_READ">>
        /\ setarg' = NoArg
        /\ UNCHANGED <<dev, ctx, upd, implied, marks, faults, writeable, lock,
                       entry, history>>

NextOtp ==
    \/ SetMachineId
    \/ ShowMachineId

SpecOtp == InitOtp /\ [][NextOtp]_vars

(***************************************************************************)
(* SpecInit: sessions that set variables and persist them, opens that      *)
(* re-initialize the store, and re-initializations cut short by a crash.   *)
(***************************************************************************)
InitInit ==
    /\ dev \in EnvStores
    /\ writeable = FALSE
    /\ ctx = NoCtx
    /\ last = Call("none", 0, "", -1, NoBoot)
    /\ upd = NoUpd
    /\ implied = NoMap
    /\ marks = -1
    /\ faults = 0
    /\ lock = NoLocks
    /\ events = <<>>
    /\ entry = NoEntry
    /\ setarg = NoArg
    /\ history = TRUE

ReinitCrashed ==
    \E force \in BOOLEAN, n \in 0..4, m \in 0..(FullWrite - 1) : OpenCrashed(force, n, m)

NextInit ==
    \/ OpenRead
    \/ OpenWrite
    \/ OpenForce
    \/ SetVar
    \/ Persisted
    \/ Close
    \/ ReinitCrashed

SpecInit == InitInit /\ [][NextInit]_vars

(***************************************************************************)
(* SpecSize: sets and deletes of short and long values, on stores that     *)
(* leave little or much room in the variable area.                         *)
(***************************************************************************)
\* the variable list of the fuller store SpecSize starts from: a=xyzw
LongVars == <<[name |-> <<97>>, value |-> <<120, 121, 122, 119>>]>>

SizeStores ==
    {Initialized,
     [i \in 0..1 |-> IF i = 0 THEN WrittenSlot(0, 0, 1, LongVars) ELSE ZeroSlot],
     [i \in 0..1 |-> IF i = 0 THEN WrittenSlot(0, 0, 1, MixedVars) ELSE ZeroSlot]}

InitSize ==
    /\ dev \in SizeStores
    /\ writeable = FALSE
    /\ ctx = NoCtx
    /\ last = Call("none", 0, "", -1, NoBoot)
    /\ upd = NoUpd
    /\ implied = NoMap
    /\ marks = -1
    /\ faults = 0
    /\ lock = NoLocks
    /\ events = <<>>
    /\ entry = NoEntry
    /\ setarg = NoArg
    /\ history = TRUE

\* the sets and deletes made under SpecSize: a and _ set to x or xyzw, or deleted
SizeInputs ==
    {<<n, v>> : n \in Names, v \in {<<120>>, <<120, 121, 122, 119>>, <<>>}}

SizeSetVar == \E in \in SizeInputs : BootvarSet(in[1], in[2])

NextSize ==
    \/ OpenRead
    \/ OpenWrite
    \/ SizeSetVar
    \/ Persisted
    \/ Close

SpecSize == InitSize /\ [][NextSize]_vars

(***************************************************************************)
(* SpecName: one set per session, of names and values of every shape.      *)
(***************************************************************************)
\* bytes at the edges of the classes isalpha, isalnum and isprint tell apart
NameBytes == {45, 47, 48, 57, 58, 64, 65, 90, 91, 95, 96, 97, 122, 123, 128}

\* n times the letter a
Pad(n) == [k \in 1..n |-> 97]

\* names of 0, 1 and 2 bytes, and names of 511, 512 and 513 bytes that are
\* well-formed, or not in their first or their last byte
NameInputs ==
    {<<>>} \cup {<<c>> : c \in NameBytes}
           \cup {<<c, d>> : c \in {95, 97, 49}, d \in NameBytes}
           \cup {<<c>> \o Pad(n) : c \in {97, 95, 49}, n \in {510, 511, 512}}
           \cup {Pad(n) \o <<c>> : c \in {57, 45}, n \in {510, 511}}

\* no value, printable values, and values with a byte that is not
ValueInputs == {<<>>, <<120>>, <<32>>, <<126>>, <<127>>, <<31>>, <<120, 7>>}

InitName ==
    /\ dev \in {Initialized,
                [i \in 0..1 |-> IF i = 0 THEN WrittenSlot(0, 0, 1, KeptVars) ELSE ZeroSlot]}
    /\ writeable = FALSE
    /\ ctx = NoCtx
    /\ last = Call("none", 0, "", -1, NoBoot)
    /\ upd = NoUpd
    /\ implied = NoMap
    /\ marks = -1
    /\ faults = 0
    /\ lock = NoLocks
    /\ events = <<>>
    /\ entry = NoEntry
    /\ setarg = NoArg
    /\ history = TRUE

NameSetVar ==
    /\ last.op = "open"
    /\ \E name \in NameInputs, value \in ValueInputs : BootvarSet(name, value)

NextName ==
    \/ OpenWrite
    \/ NameSetVar
    \/ Close

SpecName == InitName /\ [][NextName]_vars

(***************************************************************************)
(* SpecCodec: a write session about to persist a list of any size, into a  *)
(* slot buffer that holds what an earlier record left there.               *)
(***************************************************************************)
\* names a, _ and ab; values x, xy and xyzwv
CodecVars ==
    {[name |-> n, value |-> v] :
        n \in {<<97>>, <<95>>, <<97, 98>>},
        v \in {<<120>>, <<120, 121>>, <<120, 121, 122, 119, 118>>}}

\* the lists of up to three entries with different names
CodecLists ==
    {<<>>} \cup {<<v>> : v \in CodecVars}
           \cup {p \in CodecVars \X CodecVars : p[1].name # p[2].name}
           \cup {<<v, w, u>> : v \in {t \in CodecVars : t.name = <<97>>},
                               w \in {t \in CodecVars : t.name = <<95>>},
                               u \in {t \in CodecVars : t.name = <<97, 98>>}}

\* what the extension area of the destination slot held: zeroes, bytes
\* without a NUL, or the tail of an older list
StaleAreas ==
    {Zeros(ExtVarBytes), [k \in 1..ExtVarBytes |-> 122],
     [k \in 1..ExtVarBytes |-> IF k % 3 = 0 THEN 0 ELSE 113]}

\* slot 1 holds the current record; slot 0 holds an older record whose
\* extension area was torn
CodecStore(stale) ==
    [i \in 0..1 |->
        IF i = 1 THEN WrittenSlot(0, 0, 2, <<>>)
        ELSE [WrittenSlot(0, 0, 1, <<>>) EXCEPT !.ext.vars = stale, !.ext.crc = BadCrc]]

InitCodec ==
    \E vlist \in CodecLists, stale \in StaleAreas :
        /\ dev = CodecStore(stale)
        /\ ctx = [find_bootinfo(FALSE, CodecStore(stale)).ctx EXCEPT !.vars = vlist]
        /\ last = Call("bootvar_set", 0, "", -1, NoBoot)
        /\ upd = NoUpd
        /\ implied = NoMap
        /\ marks = -1
        /\ faults = 0
        /\ writeable = TRUE
        /\ lock = [NoLocks EXCEPT ![0] = "ex"]
        /\ events = <<>>
        /\ entry = NoEntry
        /\ setarg = NoArg
        /\ history = FALSE

NextCodec ==
    \/ Persisted
    \/ Close
    \/ OpenRead

SpecCodec == InitCodec /\ [][NextCodec]_vars

(***************************************************************************)
(* Getters.                                                                *)
(***************************************************************************)
bootinfo_is_in_progress(c) == IF InProgress(c.curinfo.flags) THEN 1 ELSE 0

bootinfo_failed_boot_count(c) == c.curinfo.failed_boots

(***************************************************************************)
(* Properties.                                                             *)
(***************************************************************************)
Min(a, b) == IF a < b THEN a ELSE b

\* a step that runs bootinfo_update from the application or a mark call
PersistStep ==
    /\ ctx.open
    /\ last'.op \in {"update", "mark_in_progress", "mark_successful"}

\* the first open after the session of the most recent update has returned
NextOpenDone == last.op = "open" /\ upd.age = 2

\* C1: after a crash at any point of an update, the next open yields the
\* complete state stored before the update or the complete state the update
\* was writing (flags, failed_boots and the variable list), never a mixture.
C1_CrashIsAtomic ==
    (NextOpenDone /\ upd.outcome = "crash" /\ upd.pre # NoState)
        => (last.rc = 0 /\ Logical(ctx) \in {upd.pre, upd.post})

\* C2: an update leaves the current slot of the session byte-identical
\* (slot 1 when there is no current slot), whether it succeeds or fails,
\* and never changes both slots.
C2_UpdateWritesOtherSlot ==
    [][PersistStep =>
         /\ ctx.current \in {0, 1} => dev'[ctx.current] = dev[ctx.current]
         /\ ctx.current \notin {0, 1} => dev'[1] = dev[1]
         /\ ~(dev'[0] # dev[0] /\ dev'[1] # dev[1])]_vars

\* a failed update has written the header sector and part of the extension
\* area of the other slot
C2_Witness ==
    /\ last.op = "update" /\ last.err = "EIO" /\ ctx.open
    /\ ctx.current \in {0, 1}
    /\ dev[1 - ctx.current].hdr = ctx.infobuf[1 - ctx.current].hdr
    /\ dev[1 - ctx.current].ext # ctx.infobuf[1 - ctx.current].ext
    /\ dev[1 - ctx.current].ext.vars # Zeros(ExtVarBytes)

\* C3: after a successful update the other slot is valid and holds the
\* serial of the current slot plus one modulo 256, and the next open selects
\* it; for every serial and either current slot.
C3_SerialAdvances ==
    /\ (last.op = "update" /\ last.rc = 0 /\ ctx.open /\ ctx.current \in {0, 1})
          => LET cur == ctx.current
                 new == 1 - ctx.current
             IN  /\ SlotValid(dev[new])
                 /\ dev[new].hdr.sernum = (dev[cur].hdr.sernum + 1) % 256
    /\ (NextOpenDone /\ upd.outcome = "ok")
          => /\ last.rc = 0
             /\ ctx.current = upd.idx
             /\ ctx.valid[upd.idx]

\* the update that wraps the serial from 255 to 0 was followed by an open
C3_Witness ==
    /\ NextOpenDone /\ upd.outcome = "ok" /\ last.rc = 0
    /\ ctx.curinfo.sernum = 0
    /\ ctx.current = 0
    /\ dev[1].hdr.sernum = 255 /\ SlotValid(dev[1])

\* C4: of two successive successful updates, made in one session or in two
\* consecutive sessions, the second writes another slot than the first.
C4_UpdatesAlternate ==
    (upd.outcome = "ok" /\ upd.prevIdx # -1) => upd.idx # upd.prevIdx

\* C5: the open that follows a successful update and close observes exactly
\* the variables implied by the accepted sets and deletes: every name maps
\* to its last value and no other entry is present.
C5_VarsAsImplied ==
    (NextOpenDone /\ upd.outcome = "ok" /\ last.rc = 0)
        => /\ \A n \in Names : bootvar_get(ctx.vars, n) = upd.want[n]
           /\ \A k \in 1..Len(ctx.vars) : ctx.vars[k].name \in Names
           /\ Len(ctx.vars) = Cardinality({n \in Names : upd.want[n] # <<>>})

\* "a" was set, set again to "y", and "_" was set: both are read back
C5_Witness ==
    /\ NextOpenDone /\ upd.outcome = "ok" /\ last.rc = 0
    /\ upd.want[<<97>>] = <<121>>
    /\ upd.want[<<95>>] = <<120>>
    /\ Len(ctx.vars) = 2

\* C6: after a successful update, changing one byte of the slot it wrote
\* still lets the next open succeed, with the state stored before the update.
C6_CorruptionFallsBack ==
    (NextOpenDone /\ upd.outcome = "ok" /\ upd.corrupt)
        => (last.rc = 0 /\ Logical(ctx) = upd.pre)

\* C7: mark_in_progress takes (0, n) to (1, n) and (1, n) to
\* (1, min(n + 1, 255)), and returns the failed_boots after the transition.
C7_MarkInProgressSaturates ==
    (last.op = "mark_in_progress" /\ last.rc = 0 /\ ctx.open)
        => /\ bootinfo_is_in_progress(ctx) = 1
           /\ bootinfo_failed_boot_count(ctx) =
                 IF last.pre.flags % 2 = 1
                 THEN Min(last.pre.failed_boots + 1, 255)
                 ELSE last.pre.failed_boots
           /\ last.out = bootinfo_failed_boot_count(ctx)

\* C8: after k >= 1 consecutive successful mark_in_progress calls from the
\* clean state, an open reports in-progress and a failed boot count of
\* min(k - 1, 255).
C8_CountAfterKCalls ==
    (last.op = "open" /\ last.rc = 0 /\ marks >= 1)
        => /\ bootinfo_is_in_progress(ctx) = 1
           /\ bootinfo_failed_boot_count(ctx) = Min(marks - 1, 255)

\* C9: mark_successful leaves in_progress false and failed_boots 0 in
\* memory, returns the failed_boots it found, and, when its persist
\* succeeded, the stored record holds in_progress false and failed_boots 0.
C9_MarkSuccessfulClears ==
    (last.op = "mark_successful" /\ last.err # "EROFS" /\ ctx.open)
        => /\ bootinfo_is_in_progress(ctx) = 0
           /\ bootinfo_failed_boot_count(ctx) = 0
           /\ last.out = last.pre.failed_boots
           /\ last.rc = 0 =>
                 /\ dev[upd.idx].hdr.flags % 2 = 0
                 /\ dev[upd.idx].hdr.failed_boots = 0
                 /\ Stored(dev).flags % 2 = 0
                 /\ Stored(dev).failed_boots = 0

\* mark_successful succeeded on a store in progress with 255 failed boots
C9_Witness ==
    /\ last.op = "mark_successful" /\ last.rc = 0 /\ ctx.open
    /\ last.pre.flags = 1 /\ last.pre.failed_boots = 255
    /\ last.out = 255

\* the current slot the claim states for validity (v0, v1), serials (s0, s1)
C10_Expected(v0, v1, s0, s1) ==
    CASE v0 /\ ~v1 -> 0
      [] ~v0 /\ v1 -> 1
      [] ~v0 /\ ~v1 -> -1
      [] v0 /\ v1 /\ s0 = 255 /\ s1 = 0 -> 1
      [] v0 /\ v1 /\ s0 = 0 /\ s1 = 255 -> 0
      [] v0 /\ v1 /\ s0 = s1 -> 0
      [] OTHER -> IF s0 > s1 THEN 0 ELSE 1

RECURSIVE UnderscoreVars(_)
UnderscoreVars(vlist) ==
    IF vlist = <<>> THEN <<>>
    ELSE (IF Head(Head(vlist).name) = 95 THEN <<Head(vlist)>> ELSE <<>>)
             \o UnderscoreVars(Tail(vlist))

\* a write-mode open with force-init has returned, on a device that held a
\* valid store
ForceOpenDone ==
    /\ last.op = "open"
    /\ entry.force /\ ~entry.rdonly
    /\ entry.fail = "none"
    /\ Stored(entry.dev) # NoState

\* C11: a write-mode open with force-init on a store holding variables
\* succeeds and leaves, in the session and on the device, exactly the
\* previous underscore-prefixed variables with their values in their
\* order, flags 0 and failed_boots 0; the record is in slot 0 with serial 1
\* and slot 1 is zeroed.
C11_ForceInitKeepsUnderscore ==
    ForceOpenDone =>
        /\ last.rc = 0
        /\ ctx.vars = UnderscoreVars(Stored(entry.dev).vars)
        /\ ctx.curinfo.flags = 0 /\ ctx.curinfo.failed_boots = 0
        /\ Stored(dev) = [flags |-> 0, failed_boots |-> 0,
                          vars |-> UnderscoreVars(Stored(entry.dev).vars)]
        /\ dev[0].hdr.magic = DEVICE_MAGIC /\ dev[0].hdr.sernum = 1
        /\ dev[0].ext.crc = crc32(dev[0].ext.vars)
        /\ dev[1] = ZeroSlot

C11_Witness ==
    /\ ForceOpenDone
    /\ Len(ctx.vars) >= 1
    /\ Len(Stored(entry.dev).vars) > Len(ctx.vars)
    /\ Stored(entry.dev).flags # 0

\* C12: after a crash at any point of a re-initialization of a valid store,
\* the next write-mode open succeeds and yields the state stored before the
\* re-initialization or the fresh state with the preserved variables.
C12_ReinitCrashRecovers ==
    (NextOpenDone /\ upd.outcome = "reinit_crash" /\ upd.pre # NoState
                  /\ ~entry.rdonly)
        => (last.rc = 0 /\ Logical(ctx) \in {upd.pre, upd.post})

\* C13: while a write session of the process is open, from its open to its
\* close, no other process holds the lock, shared or exclusive.
C13_WriteSessionExcludes ==
    (ctx.open /\ ~entry.rdonly) => \A p \in Peers : lock[p] = "none"

\* C14: the close of a write session (ordinary, re-initializing, or
\* degraded to read-only) leaves the soft-read-only switch of the device
\* as it was when the session was opened.
C14_GateRestored ==
    [][(ctx.open /\ ~entry.rdonly /\ last'.op = "close")
          => writeable' = entry.writeable]_vars

\* C15: a write-mode open that cannot create the runtime directory or the
\* lockfile, or cannot take the lock, fails and leaves both slots as they
\* were.
C15_LockFailureFailsOpen ==
    (last.op = "open" /\ ~entry.rdonly
        /\ entry.fail \in {"mkdir", "lockfile", "flock"})
        => (last.rc = -1 /\ ~ctx.open /\ dev = entry.dev)

\* C16: bootinfo_open with both the read-only and the force-init flag
\* returns -1 with EINVAL and has made no step: the lock is not taken, the
\* switch is not touched, the device is not opened, read or written.
C16_BadFlagsTouchNothing ==
    (last.op = "open" /\ entry.rdonly /\ entry.force)
        => /\ last.rc = -1 /\ last.err = "EINVAL"
           /\ ~ctx.open
           /\ events = <<>>
           /\ lock[0] = "none"
           /\ writeable = entry.writeable
           /\ dev = entry.dev

C16_Witness ==
    /\ last.op = "open" /\ entry.rdonly /\ entry.force
    /\ Stored(entry.dev) # NoState
    /\ entry.writeable
    /\ \E p \in Peers : lock[p] = "ex"

\* the calls that change a session or the store
Mutators == {"bootvar_set", "update", "mark_in_progress", "mark_successful"}

\* C17: in a read-only session every mutating call returns -1 with EROFS
\* and leaves the context (header and variable list) as it was; no step of
\* a read-only session, its open and its close included, changes a byte of
\* the device or the soft-read-only switch.
C17_ReadOnlySessionIsInert ==
    [][/\ (ctx.open /\ entry.rdonly)
             => /\ dev' = dev
                /\ writeable' = writeable
                /\ last'.op \in Mutators
                      => (last'.rc = -1 /\ last'.err = "EROFS" /\ ctx' = ctx)
       /\ (~ctx.open /\ last'.op = "open" /\ entry'.rdonly /\ ~entry'.force)
             => (dev' = dev /\ writeable' = writeable)]_vars

C17_Witness ==
    /\ ctx.open /\ entry.rdonly
    /\ last.op = "mark_successful" /\ last.err = "EROFS"
    /\ ctx.curinfo.failed_boots > 0
    /\ writeable

\* a record the load accepts: magic, version at least 4, the extension
\* sector count of the build, and an extension area that matches its CRC
RecordValid(slot) ==
    /\ slot.hdr.magic = <<66, 79, 79, 84, 73, 78, 70, 79>>
    /\ slot.hdr.devinfo_version >= 4
    /\ slot.hdr.ext_sectors = 1023
    /\ slot.ext.crc = [crc32_of |-> slot.ext.vars]

\* an open without a failure of the environment has returned, on a device
\* that held no valid record
OpenedNoStore ==
    /\ last.op = "open"
    /\ entry.fail = "none"
    /\ entry.dev # <<>>
    /\ \A i \in 0..1 : ~RecordValid(entry.dev[i])

C19_OpenLeavesValidSlot ==
    (last.op = "open" /\ last.rc = 0 /\ ~entry.force)
        => \E i \in 0..1 : RecordValid(dev[i])

C19_Witness ==
    /\ last.op = "open" /\ last.rc = 0 /\ ~entry.force /\ ~entry.rdonly
    /\ entry.fail = "none"
    /\ \A i \in 0..1 : ~RecordValid(entry.dev[i])
    /\ RecordValid(dev[0])

\* the positions of the entries of vlist called name
Positions(vlist, name) == {k \in 1..Len(vlist) : vlist[k].name = name}

\* the least member of a non-empty set of positions
First(S) == CHOOSE k \in S : \A j \in S : k <= j

\* a call of bootinfo_bootvar_set that passed the checks of the session,
\* the name, the value and the size has returned
SetDone ==
    /\ last.op = "bootvar_set"
    /\ last.err \notin {"EROFS", "EINVAL", "ENAMETOOLONG", "EMSGSIZE"}

\* C20: bootinfo_bootvar_set on the list of the session.  Name present and
\* value non-empty: the value of that entry is replaced and every entry
\* keeps its position.  Name absent and value non-empty: the entry is
\* appended at the end.  Name present and value empty: that entry is
\* removed and the others keep their order.  Name absent and value empty:
\* -1 with ENOENT and the list is unchanged.
C20_SetListSemantics ==
    SetDone =>
        LET old == setarg.vars
            new == ctx.vars
            at  == Positions(old, setarg.name)
        IN  IF at # {} /\ setarg.value # <<>>
            THEN /\ last.rc = 0
                 /\ Len(new) = Len(old)
                 /\ \A k \in 1..Len(old) :
                       /\ new[k].name = old[k].name
                       /\ new[k].value = IF k = First(at) THEN setarg.value
                                         ELSE old[k].value
            ELSE IF at = {} /\ setarg.value # <<>>
            THEN /\ last.rc = 0
                 /\ Len(new) = Len(old) + 1
                 /\ \A k \in 1..Len(old) : new[k] = old[k]
                 /\ new[Len(new)] = [name |-> setarg.name, value |-> setarg.value]
            ELSE IF at # {}
            THEN /\ last.rc = 0
                 /\ Len(new) = Len(old) - 1
                 /\ \A k \in 1..Len(new) :
                       new[k] = IF k < First(at) THEN old[k] ELSE old[k + 1]
            ELSE /\ last.rc = -1 /\ last.err = "ENOENT"
                 /\ new = old

C20_Witness ==
    /\ SetDone /\ last.rc = 0
    /\ Len(setarg.vars) = 2
    /\ setarg.vars[2].name = setarg.name
    /\ setarg.value # <<>>
    /\ setarg.vars[2].value # setarg.value
    /\ ctx.vars[2].value = setarg.value

\* the bytes a variable list takes in the variable area, without the NUL
\* that ends the list
RECURSIVE ListBytes(_)
ListBytes(vlist) ==
    IF vlist = <<>> THEN 0
    ELSE Len(Head(vlist).name) + Len(Head(vlist).value) + 2 + ListBytes(Tail(vlist))

\* the list after a set of name to a non-empty value
AfterSet(vlist, name, value) ==
    IF Positions(vlist, name) = {}
    THEN Append(vlist, [name |-> name, value |-> value])
    ELSE [vlist EXCEPT ![First(Positions(vlist, name))].value = value]

\* a set of a well-formed name to a non-empty value has returned in a
\* write session
SizeChecked ==
    /\ last.op = "bootvar_set"
    /\ ctx.open /\ ~ctx.readonly
    /\ setarg.value # <<>>
    /\ last.err \notin {"EINVAL", "ENAMETOOLONG"}

\* C21: a set is rejected with EMSGSIZE exactly when the list as it would
\* be after the set, entries set, deleted or replaced earlier in the
\* session taken into account, is larger than the largest list
\* bootinfo_update packs (VARSPACE_SIZE - 2 bytes); and an update of a list
\* built by accepted sets succeeds when its writes do.
C21_SetRejectsOversizeExactly ==
    /\ SizeChecked
          => (last.err = "EMSGSIZE"
                <=> ListBytes(AfterSet(setarg.vars, setarg.name, setarg.value))
                       > VARSPACE_SIZE - 2)
    /\ (last.op = "update" /\ ctx.open /\ ~ctx.readonly) => last.rc = 0

\* [A-Za-z_][A-Za-z0-9_]*
Letters == (65..90) \cup (97..122) \cup {95}
WellFormed(name) ==
    /\ name # <<>>
    /\ name[1] \in Letters
    /\ \A k \in 2..Len(name) : name[k] \in Letters \cup (48..57)

Printable(value) == \A k \in 1..Len(value) : value[k] \in 32..126

\* C22: in a write session, a set whose name is malformed or whose value
\* holds a non-printable byte returns EINVAL; with a well-formed name and a
\* printable value it returns ENAMETOOLONG when the name has 512 bytes or
\* more; no other set is refused for its name or value, so a well-formed
\* name of up to 511 bytes is accepted; a refused set leaves the list
\* unchanged.
C22_NameValidation ==
    (last.op = "bootvar_set" /\ ctx.open /\ ~ctx.readonly) =>
        LET bad == ~WellFormed(setarg.name) \/ ~Printable(setarg.value) IN
        /\ last.err = "EINVAL" <=> bad
        /\ last.err = "ENAMETOOLONG" <=> (~bad /\ Len(setarg.name) >= 512)
        /\ last.err \in {"EINVAL", "ENAMETOOLONG"} => last.rc = -1
        /\ last.rc = -1 => ctx.vars = setarg.vars

C22_Witness ==
    /\ last.op = "bootvar_set" /\ ctx.open /\ ~ctx.readonly
    /\ Len(setarg.name) = 511 /\ WellFormed(setarg.name)
    /\ last.err \notin {"EINVAL", "ENAMETOOLONG"}
    /\ setarg.vars # <<>>

\* C23: a list of at most VARSPACE_SIZE - 2 bytes is packed by
\* bootinfo_update in a write session, and parsing the variable area of the slot it wrote,
\* in the buffer and as the next open reads it from the device, gives the
\* same names and values in the same order.
C23_PackParseRoundTrip ==
    /\ (last.op = "update" /\ ctx.open /\ ~ctx.readonly
            /\ ListBytes(ctx.vars) <= VARSPACE_SIZE - 2)
          => /\ last.rc = 0
             /\ parse_vars(VarArea(ctx.infobuf[upd.idx])).vars = ctx.vars
             /\ parse_vars(VarArea(dev[upd.idx])).vars = ctx.vars
    /\ (NextOpenDone /\ upd.outcome = "ok") => (last.rc = 0 /\ ctx.vars = upd.post.vars)

C23_Witness ==
    /\ NextOpenDone /\ upd.outcome = "ok"
    /\ ListBytes(ctx.vars) = VARSPACE_SIZE - 2
    /\ Len(ctx.vars) = 2
    /\ dev[0].ext.vars[ExtVarBytes] = 122

\* the two mark calls
MarkCalls == {"mark_in_progress", "mark_successful"}

\* C24: a mark call of a write session that returns -1 leaves flags and
\* failed_boots of the context as they were before the call, and leaves
\* the current slot of the device as it was.
C24_FailedMarkKeepsState ==
    [][(ctx.open /\ ~ctx.readonly /\ last'.op \in MarkCalls /\ last'.rc = -1)
          => /\ BootOf(ctx') = BootOf(ctx)
             /\ ctx.current \in 0..1 => dev'[ctx.current] = dev[ctx.current]]_vars

\* the steps an operation made
Steps == {events[i] : i \in 1..Len(events)}

\* C25: every operation of a write session that wrote to the device (the
\* zero fill and first persist of an open, an update, a mark) ran with the
\* process holding the exclusive lock, and an open that re-initialized
\* after taking the lock did not release it on the way.
C25_WritesUnderLock ==
    /\ "write" \in Steps => lock[0] = "ex"
    /\ (last.op = "open" /\ {"lock", "write"} \subseteq Steps)
           => "unlock" \notin Steps

\* C26: a write-mode open whose initialization code fails (the buffer or
\* the context cannot be allocated, the device cannot be opened, a
\* zero-fill write or a write of the first persist fails) returns -1 with
\* the device closed, the lock released and the switch read-only or as it
\* was before the call.
C26_FailedInitReleasesAll ==
    (last.op = "open" /\ entry.fail \in InitFaults \ {"varcopy"})
        => /\ last.rc = -1 /\ last.err # "SIGABRT"
           /\ ~ctx.open
           /\ lock[0] = "none"
           /\ writeable = FALSE \/ writeable = entry.writeable

\* C27: the process never waits for a lock it holds itself, and every
\* write-mode open in which nothing fails, whatever a failed
\* initialization left on the device, returns 0 with a writeable session
\* that holds the lock.
C27_OpenAfterFailedInit ==
    /\ last.op # "open_blocked"
    /\ (last.op = "open" /\ ~entry.rdonly /\ entry.fail = "none")
          => (last.rc = 0 /\ ctx.open /\ ~ctx.readonly /\ lock[0] = "ex")

\* the last position of step e among the steps an operation made, 0 if none
LastStep(e) ==
    IF e \in Steps
    THEN CHOOSE i \in 1..Len(events) :
            events[i] = e /\ \A j \in (i + 1)..Len(events) : events[j] # e
    ELSE 0

\* step a, if made, was made before step b, if made
Before(a, b) == (a \in Steps /\ b \in Steps) => LastStep(a) < LastStep(b)

\* C28: an operation that ends a session (a close, an open that returns
\* -1) closes the device before it sets the switch read-only, and sets
\* the switch read-only before it releases the lock.
C28_ReleaseInReverseOrder ==
    (last.op = "close" \/ (last.op = "open" /\ last.rc = -1))
        => /\ Before("dev_close", "gate_ro")
           /\ Before("gate_ro", "unlock")
           /\ Before("dev_close", "unlock")

\* C29: in every transfer loop, a read or write call that returned zero or
\* a negative value is the last call of the loop, and the loop has failed.
C29_LoopsStopOnZero ==
    (last.op \in IoLoops /\ events # <<>> /\ events[Len(events)] <= 0)
        => (LoopAfter(0, events).state = "failed" /\ last.rc = -1)

\* C30: bootinfo_update on a list that does not fit the variable area
\* returns -1 without a write: both slots of the device are as they were
\* before the call.
C30_OversizeUpdateWritesNothing ==
    [][(ctx.open /\ ~ctx.readonly /\ last'.op = "update"
           /\ ListBytes(ctx.vars) > VARSPACE_SIZE - 2)
          => /\ last'.rc = -1
             /\ dev' = dev
             /\ \A i \in 1..Len(events') : events'[i] # "write"]_vars

C30_Witness ==
    /\ last.op = "update" /\ last.rc = -1
    /\ ctx.open /\ ~ctx.readonly
    /\ ListBytes(ctx.vars) > VARSPACE_SIZE - 2

\* C31: in one bootinfo_update of a write session the extension area of
\* the destination slot changes only once its header sector holds the new
\* header; the call returns 0 only with the whole new slot on the device,
\* and returns -1 when a write did not complete.
C31_HeaderBeforeExtension ==
    [][(ctx.open /\ ~ctx.readonly /\ last'.op = "update")
          => /\ dev'[DestIdx(ctx)].ext # dev[DestIdx(ctx)].ext
                   => dev'[DestIdx(ctx)].hdr = BuildSlot(ctx, DestIdx(ctx)).buf.hdr
             /\ (ctx'.open /\ last'.rc = 0)
                   => dev'[DestIdx(ctx)] = BuildSlot(ctx, DestIdx(ctx)).buf
             /\ (ctx'.open /\ dev'[DestIdx(ctx)] # BuildSlot(ctx, DestIdx(ctx)).buf)
                   => last'.rc = -1]_vars

C31_Witness ==
    /\ last.op = "update" /\ last.rc = -1 /\ ctx.open
    /\ upd.outcome = "fail"
    /\ dev[upd.idx].hdr = ctx.infobuf[upd.idx].hdr
    /\ dev[upd.idx].ext.vars # ctx.infobuf[upd.idx].ext.vars

\* an update was made in the session that is open
Updated == upd.outcome # "none" /\ upd.age = 0

\* C32: a bootinfo_bootvar_set, and the close of a write session in which
\* no update was made, write nothing: both slots of the device still hold
\* what the session loaded at its open, and an open of the device reads
\* the variable list the session read at its open.
C32_SetDoesNoDeviceIo ==
    [][(ctx.open /\ ~ctx.readonly /\ ctx.current \in 0..1 /\ ~Updated
           /\ last'.op \in {"bootvar_set", "close"})
          => /\ dev' = dev
             /\ \A i \in 0..1 : LoadBuf(dev'[i]) = ctx.infobuf[i]
             /\ Stored(dev').vars
                   = parse_vars(VarArea(ctx.infobuf[ctx.current])).vars]_vars

C32_Witness ==
    /\ last.op = "bootvar_set" /\ last.rc = 0
    /\ ctx.open /\ ~ctx.readonly /\ ctx.current \in 0..1 /\ ~Updated
    /\ Stored(dev).vars # <<>>
    /\ Len(ctx.vars) < Len(Stored(dev).vars)

\* no two entries of the list have the same name
DistinctNames(vlist) ==
    \A i, j \in 1..Len(vlist) : vlist[i].name = vlist[j].name => i = j

SetRepeated ==
    /\ ctx.open /\ last.op = "bootvar_set" /\ last.rc = 0
    /\ setarg.value # <<>>
    /\ last'.op = "bootvar_set"
    /\ setarg'.name = setarg.name /\ setarg'.value = setarg.value

\* C34: a bootinfo_bootvar_set that repeats the accepted set before it,
\* same name and same non-empty value, returns 0 and leaves the variable
\* list, and the slot an update would build from it, as they were.
C34_RepeatedSetIsIdempotent ==
    [][SetRepeated
          => /\ last'.rc = 0
             /\ ctx'.vars = ctx.vars
             /\ BuildSlot(ctx', DestIdx(ctx')) = BuildSlot(ctx, DestIdx(ctx))]_vars

C34_Witness ==
    /\ last.op = "bootvar_set" /\ last.rc = 0
    /\ setarg.value # <<>>
    /\ setarg.vars = ctx.vars
    /\ Len(ctx.vars) = 2
    /\ bootvar_get(ctx.vars, setarg.name) = setarg.value

\* C35: a check-status invocation in which no call fails exits with 77 if
\* the count it read is at least 3, which is the case exactly when three
\* invocations went before it since the last clean state, and with 0
\* otherwise; after every exit with 77 an open of the device reads boot not
\* in progress and failed_boots 0.
C35_CheckStatusThreshold ==
    /\ [][(last'.op = "check_status" /\ faults' = 0)
             => /\ last'.rc = 77 <=> last'.out >= MAX_BOOT_FAILURES
                /\ last'.rc = 77 <=> marks = MAX_BOOT_FAILURES
                /\ last'.rc \in {0, 77}]_vars
    /\ []((last.op = "check_status" /\ last.rc = 77)
             => (~InProgress(Stored(dev).flags) /\ Stored(dev).failed_boots = 0))


\* a copy whose first bytes are those of the image of this run
HoldsImage(content) == content \in {"new", "tail"}

\* the copies this run checks that did not hold the image when it started
Differing == {k \in Checked(ctx.copycount) : ~HoldsImage(entry.dev[k])}

\* C36: a verifying run of rk-update-bootloader writes to no copy, and
\* when none of its reads failed it exits 0 exactly when every copy it
\* checked matches its image; an updating run writes to no copy that
\* matched, leaves such a copy as it was, and when it has exited 0 it has
\* rewritten exactly the copies that differed.
C36_VerifyReadsUpdateRewritesDiffering ==
    /\ ~ctx.update =>
        /\ dev = entry.dev
        /\ ctx.cache = Clean
        /\ ctx.written = {}
        /\ (last.op = "exit" /\ last.rc = 0) => Differing = {}
        /\ (last.op = "exit" /\ last.err = "") => (last.rc = 0 <=> Differing = {})
    /\ ctx.update =>
        /\ ctx.written \subseteq Differing
        /\ \A k \in Copies \ Differing : Visible(ctx, dev, k) = entry.dev[k]
        /\ (last.op = "exit" /\ last.rc = 0) =>
              /\ ctx.written = Differing
              /\ \A k \in Differing : Visible(ctx, dev, k) = "new"

\* an updating run has exited 0 having rewritten some copies and left
\* others, one of them holding the image followed by other bytes, alone
C36_Witness ==
    /\ last.op = "exit"
    /\ last.rc = 0
    /\ ctx.update
    /\ ctx.written # {}
    /\ \E k \in Checked(ctx.copycount) \ ctx.written : dev[k] = "tail"
    /\ \E k \in IdblockCopies : k \notin ctx.written

\* the copies among S that the medium holds zeroed or in part
Damaged(S) == {k \in S : dev[k] \in {"zero", "torn"}}

\* C37: at every moment of an updating run at most one U-Boot copy and at
\* most one idblock copy is zeroed or partly written on the medium, and
\* every other copy holds a complete image.
C37_OneCopyAtATime ==
    /\ Cardinality(Damaged(UbootCopies)) <= 1
    /\ Cardinality(Damaged(IdblockCopies)) <= 1
    /\ \A k \in Copies \ Damaged(Copies) : dev[k] \in {"old", "new", "tail"}


\* an OTP write is among the commands the last invocation sent
WriteIssued(sent) == \E i \in 1..Len(sent) : sent[i] = "OTP_WRITE"

\* the machine ID field holds a programmed byte
Programmed(zone) == \E i \in 1..Len(zone) : zone[i] # "NUL"

\* C38: rk-otp-tool sends the OTP write only when the zone held nothing
\* but unprogrammed bytes; a set attempted on a zone that holds a programmed
\* byte exits with 1, sends no write and leaves the zone as it was; and no
\* more than one write ever returns success.
C38_MachineIdProgrammedOnce ==
    /\ [][last'.op = "set-machine-id" =>
            /\ WriteIssued(events') => ~Programmed(dev)
            /\ Programmed(dev) =>
                  (last'.rc = 1 /\ ~WriteIssued(events') /\ dev' = dev)]_vars
    /\ [](marks <= 1)

\* a set with a valid ID, different from the stored one, has been rejected
\* on a zone that an earlier set programmed
C38_Witness ==
    /\ last.op = "set-machine-id"
    /\ last.rc = 1
    /\ marks = 1
    /\ machineid_ok(setarg.name)
    /\ setarg.name # dev
    /\ events = <<"OTP_READ">>
    /\ ~allsame("NUL", dev)

====
